---- MODULE Spec2Model ----
(***************************************************************************)
(* A model of the MediaWiki dump converter (extraction/wikidump_to_html.py).*)
(*                                                                         *)
(* Strings are sequences of one-character strings, so that slug            *)
(* derivation, title normalisation and suffixing are computed character    *)
(* by character as the code computes them.  A page text is a sequence of   *)
(* lines and a line is a sequence of lexemes (see "Lexemes" below).        *)
(***************************************************************************)
EXTENDS Integers, Sequences, FiniteSets, TLC

(***************************************************************************)
(* Bounds of the model.                                                    *)
(***************************************************************************)
\* pages fed to build_pages
MaxPages == 3

(***************************************************************************)
(* Characters.                                                             *)
(***************************************************************************)
LowerAlpha == <<"a","b","c","d","e","f","g","h","i","j","k","l","m",
                "n","o","p","q","r","s","t","u","v","w","x","y","z">>
UpperAlpha == <<"A","B","C","D","E","F","G","H","I","J","K","L","M",
                "N","O","P","Q","R","S","T","U","V","W","X","Y","Z">>
DigitChars == <<"0","1","2","3","4","5","6","7","8","9">>

Range(s) == {s[k] : k \in DOMAIN s}

IndexOf(c, s) == CHOOSE k \in DOMAIN s : s[k] = c

\* The model's one accented letter is written "e-acute" / "E-acute": a
\* single character of the strings, like any other element.
\* str.lower() on one character
LowerChar(c) ==
  IF c \in Range(UpperAlpha) THEN LowerAlpha[IndexOf(c, UpperAlpha)]
  ELSE IF c = "E-acute" THEN "e-acute"
  ELSE c

\* str.upper() on one character
UpperChar(c) ==
  IF c \in Range(LowerAlpha) THEN UpperAlpha[IndexOf(c, LowerAlpha)]
  ELSE IF c = "e-acute" THEN "E-acute"
  ELSE c

\* the ASCII characters the model's strings use
AsciiPunct == {" ", "_", "-", "!", ":", "#", "."}
IsAscii(c) == c \in Range(LowerAlpha) \cup Range(UpperAlpha) \cup Range(DigitChars) \cup AsciiPunct

\* unicodedata.normalize("NFKD", c).encode("ascii", "ignore").decode("ascii")
\* on one character: the base letter of an accented letter survives, any
\* other non-ASCII character is dropped
AsciiFoldChar(c) ==
  IF IsAscii(c) THEN <<c>>
  ELSE IF c = "e-acute" THEN <<"e">>
  ELSE IF c = "E-acute" THEN <<"E">>
  ELSE <<>>

RECURSIVE AsciiFold(_)
AsciiFold(s) ==
  IF s = <<>> THEN <<>> ELSE AsciiFoldChar(Head(s)) \o AsciiFold(Tail(s))

Lowered(s) == [k \in DOMAIN s |-> LowerChar(s[k])]

\* the complement of the class [^a-z0-9] of _slug_strip_re
IsSlugChar(c) == c \in Range(LowerAlpha) \cup Range(DigitChars)

\* _slug_strip_re.sub("-", s): every maximal run of non-slug characters
\* becomes one hyphen
RECURSIVE slug_strip_sub(_)
slug_strip_sub(s) ==
  IF s = <<>> THEN <<>>
  ELSE IF IsSlugChar(Head(s)) THEN <<Head(s)>> \o slug_strip_sub(Tail(s))
  ELSE IF Len(s) > 1 /\ ~IsSlugChar(s[2]) THEN slug_strip_sub(Tail(s))
  ELSE <<"-">> \o slug_strip_sub(Tail(s))

RECURSIVE LStripSet(_, _)
LStripSet(s, cs) ==
  IF s # <<>> /\ Head(s) \in cs THEN LStripSet(Tail(s), cs) ELSE s

RECURSIVE RStripSet(_, _)
RStripSet(s, cs) ==
  IF s # <<>> /\ s[Len(s)] \in cs THEN RStripSet(SubSeq(s, 1, Len(s) - 1), cs) ELSE s

StripSet(s, cs) == RStripSet(LStripSet(s, cs), cs)

\* the characters str.strip() removes, among those the model uses
Whitespace == {" "}

\* str.replace(a, b) for single characters
ReplaceChar(s, a, b) == [k \in DOMAIN s |-> IF s[k] = a THEN b ELSE s[k]]

\* the decimal digits of a positive integer, as f"{i}" prints them
RECURSIVE Decimal(_)
Decimal(n) ==
  IF n < 10 THEN <<DigitChars[n + 1]>>
  ELSE Decimal(n \div 10) \o <<DigitChars[(n % 10) + 1]>>

(***************************************************************************)
(* Slugs and titles.                                                       *)
(***************************************************************************)
\* the candidate slug of slugify, before collisions are looked at
SlugCore(title) == StripSet(slug_strip_sub(Lowered(AsciiFold(title))), {"-"})

SlugBase(title) ==
  IF SlugCore(title) = <<>> THEN <<"p","a","g","e">> ELSE SlugCore(title)

\* f"{base}-{i}"
Suffixed(base, i) == base \o <<"-">> \o Decimal(i)

\* a collision test made once instead of repeated until the candidate is free
SlugLoopOnce(base, slug, i, used) ==
  IF slug \in used THEN Suffixed(base, i) ELSE slug

\* the while loop of slugify: slug is the current candidate, i the next suffix
RECURSIVE SlugLoop(_, _, _, _)
SlugLoop(base, slug, i, used) ==
  IF slug \in used THEN SlugLoop(base, Suffixed(base, i), i + 1, used) ELSE slug

\* the first suffix slugify tries
FirstSuffix == 2

\* the slug slugify returns
slugify(title, used) == SlugLoop(SlugBase(title), SlugBase(title), FirstSuffix, used)

\* the set slugify leaves in `used`
slugify_used(title, used) == used \cup {slugify(title, used)}

category_slug(name) ==
  <<"c","a","t","e","g","o","r","y","-">> \o
    (IF SlugCore(name) = <<>> THEN <<"c","a","t","e","g","o","r","y">> ELSE SlugCore(name))

\* the position of the first occurrence of c in s, 0 when there is none
FirstPos(c, s) ==
  IF c \in Range(s) THEN CHOOSE k \in DOMAIN s : s[k] = c /\ \A j \in 1..(k - 1) : s[j] # c
  ELSE 0

UpperFirst(s) == IF s = <<>> THEN <<>> ELSE <<UpperChar(Head(s))>> \o Tail(s)

normalize_title(title) ==
  LET t == StripSet(ReplaceChar(title, "_", " "), Whitespace)
      p == FirstPos(":", t)
  IN  IF t = <<>> THEN t
      ELSE IF p > 0
        THEN SubSeq(t, 1, p - 1) \o <<":">> \o UpperFirst(SubSeq(t, p + 1, Len(t)))
      ELSE UpperFirst(t)

heading_id(text) ==
  IF SlugCore(text) = <<>> THEN <<"s","e","c","t","i","o","n">> ELSE SlugCore(text)

(***************************************************************************)
(* String helpers.                                                         *)
(***************************************************************************)
LowerStr(s) == Lowered(s)

StartsWith(s, prefix) ==
  Len(s) >= Len(prefix) /\ SubSeq(s, 1, Len(prefix)) = prefix

\* `sub in s`
Contains(s, sub) ==
  \E k \in 0..(Len(s) - Len(sub)) : SubSeq(s, k + 1, k + Len(sub)) = sub

DropFirst(s, n) == SubSeq(s, n + 1, Len(s))

Strip(s) == StripSet(s, Whitespace)

\* s.split(c): the pieces of s between the occurrences of character c
RECURSIVE SplitOn(_, _)
SplitOn(s, c) ==
  LET p == FirstPos(c, s) IN
    IF p = 0 THEN <<s>>
    ELSE <<SubSeq(s, 1, p - 1)>> \o SplitOn(DropFirst(s, p), c)

\* html.escape(s), quotes included
EscapeChar(c) ==
  IF c = "&" THEN <<"&","a","m","p",";">>
  ELSE IF c = "<" THEN <<"&","l","t",";">>
  ELSE IF c = ">" THEN <<"&","g","t",";">>
  ELSE IF c = "\"" THEN <<"&","q","u","o","t",";">>
  ELSE IF c = "'" THEN <<"&","#","x","2","7",";">>
  ELSE <<c>>

RECURSIVE escape(_)
escape(s) == IF s = <<>> THEN <<>> ELSE EscapeChar(Head(s)) \o escape(Tail(s))

DotHtml == <<".","h","t","m","l">>

(***************************************************************************)
(* Lexemes.  A line of wikitext is a sequence of lexemes [t, v]: t is the  *)
(* kind and v the characters.  A "link" lexeme is a double-bracket span    *)
(* [[v]] (v holds no "]"): internal links, category links and file embeds  *)
(* are told apart from v, as the regular expressions of the code do.  A    *)
(* "txt" lexeme is a run of plain characters (no markup character, no      *)
(* leading "-" or "+").                                                    *)
(***************************************************************************)
Tok(t, v) == [t |-> t, v |-> v]
T_sp     == Tok("sp", <<" ">>)
T_star   == Tok("star", <<"*">>)
T_hash   == Tok("hash", <<"#">>)
T_eq     == Tok("eq", <<"=">>)
T_topen  == Tok("topen", <<"{","|">>)
T_tclose == Tok("tclose", <<"|","}">>)
T_trow   == Tok("trow", <<"|","-">>)
T_tcap   == Tok("tcap", <<"|","+">>)
T_bar    == Tok("bar", <<"|">>)
T_bang   == Tok("bang", <<"!">>)
T_dbar   == Tok("dbar", <<"|","|">>)
T_dbang  == Tok("dbang", <<"!","!">>)
T_divc   == Tok("divc", <<"<","d","i","v"," ","c","l","a","s","s","=","'","m","w","-","c","o","l","l","a","p","s","i","b","l","e","'",">">>)
T_divx   == Tok("divx", <<"<","/","d","i","v",">">>)
T_DIVX   == Tok("divx", <<"<","/","D","I","V",">">>)
T_redir  == Tok("redir", <<"#","R","E","D","I","R","E","C","T">>)
T_redir_lc == Tok("redir", <<"#","r","e","d","i","r","e","c","t">>)
T_colon  == Tok("colon", <<":">>)
T_lbr    == Tok("lbr", <<"{","{">>)
T_rbr    == Tok("rbr", <<"}","}">>)
T_cr     == Tok("cr", <<"\r">>)
T_nl     == Tok("nl", <<"\n">>)
T_apos   == Tok("apos", <<"'">>)
Txt(v)   == Tok("txt", v)
Link(v)  == Tok("link", v)

\* the characters of a lexeme as they stand in the source text
LexText(tok) == IF tok.t = "link" THEN <<"[","[">> \o tok.v \o <<"]","]">> ELSE tok.v

(***************************************************************************)
(* Inline output: a sequence of pieces [t, cls, href, label, alt, cap, w,  *)
(* h, inner], every field a character sequence but the integers w and h    *)
(* and the pieces inner.                                                   *)
(*   "text"    literal characters (label)                                  *)
(*   "a"       an anchor; cls is "missing" for an unresolved target        *)
(*   "figure"  a figure of class cls with a placeholder image of w x h     *)
(*             (alternative text alt), the file name (label), a caption    *)
(*             (cap) when not empty, the image inside an anchor to href    *)
(*             when href is not empty                                      *)
(*   "mdimg"   the Markdown image construct, same fields                   *)
(*   "strongem", "strong", "em"  an emphasis element around the pieces     *)
(*             inner                                                       *)
(*   "escaped" the markup of the piece inner[1] as literal, escaped text   *)
(***************************************************************************)
Piece(t, cls, href, label, alt, cap, w, h) ==
  [t |-> t, cls |-> cls, href |-> href, label |-> label, alt |-> alt, cap |-> cap,
   w |-> w, h |-> h, inner |-> <<>>]
OText(v) == Piece("text", <<>>, <<>>, v, <<>>, <<>>, 0, 0)
OAnchor(cls, href, label) == Piece("a", cls, href, label, <<>>, <<>>, 0, 0)

\* the list `ordered` of _link_for_target: the candidates without repeats
RECURSIVE Dedupe(_, _)
Dedupe(cands, seen) ==
  IF cands = <<>> THEN <<>>
  ELSE IF Head(cands) \in seen THEN Dedupe(Tail(cands), seen)
  ELSE <<Head(cands)>> \o Dedupe(Tail(cands), seen \cup {Head(cands)})

\* the lookup keys with the normalized target tried before the raw one
link_candidates_normalized_first(base) ==
  Dedupe(<< normalize_title(base), base, ReplaceChar(base, "_", " "),
            ReplaceChar(normalize_title(base), " ", "_") >>, {})

\* the lookup keys of _link_for_target, in the order they are tried
link_candidates(base) ==
  Dedupe(<< base, normalize_title(base), ReplaceChar(base, "_", " "),
            ReplaceChar(normalize_title(base), " ", "_") >>, {})

\* the slug of the first key present in the registry; <<>> (None) otherwise
RECURSIVE first_hit(_, _)
first_hit(keys, d) ==
  IF keys = <<>> THEN <<>>
  ELSE IF Head(keys) \in DOMAIN d THEN d[Head(keys)]
  ELSE first_hit(Tail(keys), d)

link_base(target) ==
  IF FirstPos("#", target) > 0 THEN SubSeq(target, 1, FirstPos("#", target) - 1) ELSE target

\* the fragment of a target; <<>> when there is none (None and "" act alike)
link_frag(target) ==
  IF FirstPos("#", target) > 0 THEN DropFirst(target, FirstPos("#", target)) ELSE <<>>

FragSuffix(frag) == IF frag # <<>> THEN <<"#">> \o heading_id(frag) ELSE <<>>

\* the slug a link to a page that is not registered points to
predicted_slug(base) == SlugBase(normalize_title(base))

link_for_target(target, label, d) ==
  LET base == link_base(target)
      frag == link_frag(target)
      slug == first_hit(link_candidates(base), d)
  IN  IF slug # <<>>
        THEN OAnchor(<<>>, escape(slug \o DotHtml \o FragSuffix(frag)), escape(label))
      ELSE OAnchor(<<"m","i","s","s","i","n","g">>,
                   escape(predicted_slug(base) \o DotHtml \o FragSuffix(frag)),
                   escape(label))

(***************************************************************************)
(* File embeds: file_sub of WikiConverter.inline.                          *)
(***************************************************************************)
DefaultWidth == 600
DefaultHeight == 400
MinSide == 40
MaxWidth == 1600
MaxHeight == 1200
\* base_default_width * 0.37, which is the float 222.0
UprightWidth == 222

Min(a, b) == IF a < b THEN a ELSE b
Max(a, b) == IF a > b THEN a ELSE b

IsDigits(s) == s # <<>> /\ \A k \in DOMAIN s : s[k] \in Range(DigitChars)

RECURSIVE ParseInt(_)
ParseInt(ds) ==
  IF ds = <<>> THEN 0
  ELSE 10 * ParseInt(SubSeq(ds, 1, Len(ds) - 1)) + (IndexOf(ds[Len(ds)], DigitChars) - 1)

\* the numeral without its leading zeros
StripZeros(ds) ==
  IF \A k \in DOMAIN ds : ds[k] = "0" THEN <<>>
  ELSE DropFirst(ds, (CHOOSE k \in DOMAIN ds : ds[k] # "0" /\ \A j \in 1..(k - 1) : ds[j] = "0") - 1)

\* int(digits) as far as the clamps of file_sub can tell: every value from
\* MaxWidth * MaxHeight on is kept as MaxWidth * MaxHeight
ParseSaturated(ds) ==
  IF Len(StripZeros(ds)) > Len(Decimal(MaxWidth * MaxHeight)) THEN MaxWidth * MaxHeight
  ELSE Min(MaxWidth * MaxHeight, ParseInt(StripZeros(ds)))

\* a >= b for two numerals of the same length
NumeralGE(a, b) ==
  \/ a = b
  \/ \E k \in DOMAIN a :
       /\ \A j \in 1..(k - 1) : a[j] = b[j]
       /\ IndexOf(a[k], DigitChars) > IndexOf(b[k], DigitChars)

\* int(ds) >= int(limit), limit without leading zeros
AtLeast(ds, limit) ==
  \/ Len(StripZeros(ds)) > Len(limit)
  \/ Len(StripZeros(ds)) = Len(limit) /\ NumeralGE(StripZeros(ds), limit)

\* the least w for which w * 3 / 4 is too large for a float (OverflowError)
SizeFloatLimit == <<"2","3","9","6","9","2","4","1","7","9","8","1","6","4","2","1","0","7","7","2","4","9","7","1","9","6","1","8","7","3","7","3","7","8","8","6","7","7","3","2","4","5","5","1","0","2","8","0","0","5","0","4","3","5","9","1","4","8","9","8","3","7","1","9","7","3","9","2","6","6","2","4","3","9","0","3","5","3","0","0","1","2","6","2","1","9","8","6","9","0","6","3","6","7","8","2","9","4","2","7","9","5","1","0","7","0","4","8","5","5","5","5","9","0","5","1","7","2","1","4","5","9","5","4","0","7","3","9","7","1","3","5","9","2","0","5","3","6","8","4","0","8","7","6","6","5","1","5","6","2","0","0","7","7","6","0","9","0","9","2","1","1","8","6","9","3","3","4","2","7","7","8","4","4","9","0","1","6","9","8","4","7","3","1","2","7","7","5","6","9","4","8","7","0","9","0","1","9","3","0","0","9","7","3","6","9","3","4","2","6","4","7","4","0","9","5","1","5","5","9","4","6","1","6","3","7","9","0","5","5","3","0","9","3","1","4","7","7","7","9","9","1","5","3","0","0","3","9","0","2","9","2","0","9","8","8","9","1","2","5","9","1","5","4","0","1","4","2","7","2","4","5","6","9","4","8","7","4","6","2","6","6","0","1","0","7","9","0","7","2","3","8","4","0","2","3","7","2","0","5","5","6","5","9","9","7","0","5","6">>
\* the least integer factor f for which 600 * 0.37 * float(f) is the float
\* infinity, which int() refuses (OverflowError)
UprightFloatLimit == <<"8","0","9","7","7","1","6","8","2","3","7","0","4","1","2","4","8","6","0","6","3","0","7","4","7","4","3","2","8","1","5","5","0","6","9","2","7","8","2","2","0","4","4","8","1","8","3","7","2","3","4","6","2","8","0","0","4","7","5","1","7","3","3","5","7","5","6","6","7","1","3","4","1","8","5","7","3","9","0","1","7","8","7","5","8","5","5","0","0","9","0","0","2","7","3","2","4","3","9","8","5","4","4","5","6","5","1","5","0","1","0","3","5","8","2","4","9","9","8","8","5","9","6","7","2","0","4","7","2","1","0","4","6","6","2","2","4","9","1","7","0","6","9","6","2","6","8","4","9","6","7","7","5","0","0","0","9","1","3","4","4","3","6","3","8","5","7","4","6","3","2","7","2","5","5","1","2","3","8","1","0","4","7","2","3","2","0","4","6","4","3","3","7","3","6","9","5","6","3","5","1","0","0","6","0","4","1","1","8","2","6","9","2","8","7","4","4","9","4","1","7","3","7","6","4","3","3","0","5","4","9","6","3","3","3","1","3","1","8","4","5","7","8","1","5","0","1","9","0","0","8","2","8","4","0","3","2","0","4","3","5","4","4","5","3","6","8","4","9","2","9","9","5","1","4","9","2","2","7","9","2","0","6","5","3","8","4","8","7","1","7","1","4","4","6","1","8","3","7","1","6","4","5","4","4","1">>

RECURSIVE Pow10(_)
Pow10(n) == IF n = 0 THEN 1 ELSE 10 * Pow10(n - 1)

\* size_re: ^(\d+)(?:x(\d+))?px$, case-insensitive, on a stripped option
SizeBody(o) == SubSeq(o, 1, Len(o) - 2)
SizeMatches(o) ==
  LET low == LowerStr(o)
      body == SizeBody(low)
      p == FirstPos("x", body)
  IN  /\ Len(o) > 2
      /\ SubSeq(low, Len(o) - 1, Len(o)) = <<"p","x">>
      /\ IF p = 0 THEN IsDigits(body)
         ELSE IsDigits(SubSeq(body, 1, p - 1)) /\ IsDigits(DropFirst(body, p))
SizeWidth(o) ==
  LET body == SizeBody(LowerStr(o))
      p == FirstPos("x", body)
  IN  IF p = 0 THEN ParseSaturated(body) ELSE ParseSaturated(SubSeq(body, 1, p - 1))
\* int(w * 3 / 4) when no height is given
SizeHeight(o) ==
  LET body == SizeBody(LowerStr(o))
      p == FirstPos("x", body)
  IN  IF p = 0 THEN (ParseSaturated(body) * 3) \div 4 ELSE ParseSaturated(DropFirst(body, p))
\* w * 3 / 4 raises OverflowError, which `except ValueError` lets through
SizeRaises(o) ==
  /\ FirstPos("x", SizeBody(LowerStr(o))) = 0
  /\ AtLeast(SizeBody(LowerStr(o)), SizeFloatLimit)

\* upright_re: ^upright(?::?=([0-9]*\.?[0-9]+))?$, case-insensitive
UprightFactor(o) ==
  LET rest == DropFirst(LowerStr(o), 7) IN
    IF StartsWith(rest, <<":","=">>) THEN DropFirst(rest, 2)
    ELSE IF StartsWith(rest, <<"=">>) THEN DropFirst(rest, 1)
    ELSE <<>>
IsFactor(f) ==
  LET p == FirstPos(".", f) IN
    IF p = 0 THEN IsDigits(f)
    ELSE /\ (p = 1 \/ IsDigits(SubSeq(f, 1, p - 1)))
         /\ IsDigits(DropFirst(f, p))
UprightMatches(o) ==
  LET low == LowerStr(o)
      rest == DropFirst(low, 7)
  IN  /\ StartsWith(low, <<"u","p","r","i","g","h","t">>)
      /\ \/ rest = <<>>
         \/ (StartsWith(rest, <<":","=">>) \/ StartsWith(rest, <<"=">>)) /\ IsFactor(UprightFactor(o))
\* int(base_default_width * 0.37 * scale) for the decimal factor f (1.0 when absent)
UprightScaled(f) ==
  LET p == FirstPos(".", f)
      digits == IF p = 0 THEN f ELSE SubSeq(f, 1, p - 1) \o DropFirst(f, p)
      places == IF p = 0 THEN 0 ELSE Len(f) - p
  IN  IF f = <<>> THEN UprightWidth
      ELSE (UprightWidth * ParseInt(digits)) \div Pow10(places)

\* int(base_default_width * 0.37 * scale) raises OverflowError
UprightRaises(f) ==
  /\ f # <<>>
  /\ AtLeast(IF FirstPos(".", f) = 0 THEN f ELSE SubSeq(f, 1, FirstPos(".", f) - 1),
             UprightFloatLimit)

alignment_tokens == { <<"l","e","f","t">>, <<"r","i","g","h","t">>, <<"c","e","n","t","e","r">>, <<"n","o","n","e">> }
frame_tokens == { <<"t","h","u","m","b">>, <<"t","h","u","m","b","n","a","i","l">>, <<"f","r","a","m","e">>, <<"f","r","a","m","e","l","e","s","s">> }

\* the state of the option loop of file_sub before the first option
FileOptsInit ==
  [ alt |-> <<>>, has_alt |-> FALSE, link |-> <<>>, width |-> DefaultWidth,
    height |-> DefaultHeight, explicit |-> FALSE, classes |-> <<"f","i","l","e","-","r","e","f">>, cap_idx |-> 0,
    raised |-> FALSE ]

\* one iteration of the option loop of file_sub (idx counts from 1)
FileOptStep(st, opt, idx) ==
  LET o == Strip(opt)
      low == LowerStr(o)
  IN  IF o = <<>> THEN st
      ELSE IF StartsWith(low, <<"a","l","t","=">>)
        THEN [st EXCEPT !.alt = Strip(DropFirst(o, 4)), !.has_alt = TRUE]
      ELSE IF StartsWith(low, <<"l","i","n","k","=">>)
        THEN [st EXCEPT !.link = Strip(DropFirst(o, 5))]
      ELSE IF SizeMatches(o) /\ SizeRaises(o) THEN [st EXCEPT !.raised = TRUE]
      ELSE IF SizeMatches(o)
        THEN [st EXCEPT !.width = SizeWidth(o), !.height = SizeHeight(o), !.explicit = TRUE]
      ELSE IF UprightMatches(o)
        THEN IF st.explicit THEN st
             ELSE IF UprightRaises(UprightFactor(o)) THEN [st EXCEPT !.raised = TRUE]
             ELSE [st EXCEPT !.width = UprightScaled(UprightFactor(o)),
                             !.height = (UprightScaled(UprightFactor(o)) * 3) \div 4]
      ELSE IF low \in alignment_tokens
        THEN [st EXCEPT !.classes = @ \o <<" ","a","l","i","g","n","-">> \o low]
      ELSE IF low \in frame_tokens
        THEN [st EXCEPT !.classes = @ \o <<" ","m","o","d","e","-">> \o low]
      ELSE [st EXCEPT !.cap_idx = idx]

RECURSIVE FileOptLoop(_, _, _)
FileOptLoop(st, opts, idx) ==
  IF idx > Len(opts) \/ st.raised THEN st
  ELSE FileOptLoop(FileOptStep(st, opts[idx], idx), opts, idx + 1)

\* the caption file_sub derives: the last option that is no technical one
file_caption(opts) ==
  LET st == FileOptLoop(FileOptsInit, opts, 1) IN
    IF st.cap_idx # 0 THEN Strip(opts[st.cap_idx]) ELSE <<>>

IsExternal(target) == StartsWith(target, <<"h","t","t","p",":","/","/">>) \/ StartsWith(target, <<"h","t","t","p","s",":","/","/">>)

\* the YouTube test without the condition on the file name
is_youtube_link_any_file(link_target, filename, caption) ==
  /\ link_target # <<>>
  /\ \/ Contains(LowerStr(link_target), <<"y","o","u","t","u","b","e",".","c","o","m">>)
     \/ Contains(LowerStr(link_target), <<"y","o","u","t","u",".","b","e">>)
  /\ caption = <<>>

\* the test of the YouTube special case of file_sub
is_youtube_link(link_target, filename, caption) ==
  /\ link_target # <<>>
  /\ \/ Contains(LowerStr(link_target), <<"y","o","u","t","u","b","e",".","c","o","m">>)
     \/ Contains(LowerStr(link_target), <<"y","o","u","t","u",".","b","e">>)
  /\ Contains(LowerStr(filename), <<"y","o","u","t","u","b","e">>)
  /\ caption = <<>>

\* str.replace(".html", ".md")
RECURSIVE HtmlToMd(_)
HtmlToMd(s) ==
  IF s = <<>> THEN <<>>
  ELSE IF StartsWith(s, DotHtml) THEN <<".","m","d">> \o HtmlToMd(DropFirst(s, Len(DotHtml)))
  ELSE <<Head(s)>> \o HtmlToMd(Tail(s))

\* the href file_sub wraps the image in; <<>> when there is no link target
file_href(link_target, mode, d) ==
  LET inner == link_for_target(StripSet(link_target, {"[", "]"}), <<"_","_","P","L","A","C","E","H","O","L","D","E","R","_","_">>, d).href
  IN  IF link_target = <<>> THEN <<>>
      ELSE IF IsExternal(link_target)
        THEN (IF mode = "markdown" THEN link_target ELSE escape(link_target))
      ELSE IF mode = "markdown" THEN HtmlToMd(inner)
      ELSE escape(inner)

\* what file_sub returns once the options are read; an "OverflowError" piece
\* stands for the exception that leaves file_sub, inline and convert
file_render(st, filename, caption, mode, d) ==
  IF st.raised THEN Piece("OverflowError", <<>>, <<>>, <<>>, <<>>, <<>>, 0, 0)
  ELSE IF is_youtube_link(st.link, filename, caption)
    THEN OAnchor(<<>>, IF mode = "markdown" THEN st.link ELSE escape(st.link), <<"Y","o","u","T","u","b","e">>)
  ELSE IF mode = "markdown"
    THEN Piece("mdimg", <<>>, file_href(st.link, mode, d), filename,
               IF st.has_alt THEN st.alt ELSE filename,
               caption, Max(MinSide, Min(st.width, MaxWidth)), Max(MinSide, Min(st.height, MaxHeight)))
  ELSE Piece("figure", escape(st.classes), file_href(st.link, mode, d), escape(filename),
             escape(IF st.has_alt THEN st.alt ELSE filename), escape(caption),
             Max(MinSide, Min(st.width, MaxWidth)), Max(MinSide, Min(st.height, MaxHeight)))

\* the file name and the options of an embed
file_name(parts) == IF DropFirst(parts[1], 5) = <<>> THEN <<"F","i","l","e">> ELSE DropFirst(parts[1], 5)
file_parts(parts, mode, d) ==
  file_render(FileOptLoop(FileOptsInit, Tail(parts), 1), file_name(parts),
              file_caption(Tail(parts)), mode, d)

\* file_sub: `inside` is the text between the brackets, d the slug registry
file_sub(inside, mode, d) == file_parts(SplitOn(inside, "|"), mode, d)

(***************************************************************************)
(* WikiConverter.inline, lexeme by lexeme.                                 *)
(***************************************************************************)
\* FILE_LINK_ANY_RE on the span [[v]]
IsFileEmbed(v) == StartsWith(LowerStr(v), <<"f","i","l","e",":">>) /\ Len(v) > 5

\* LINK_RE on the span [[v]]: group 1 up to the first "|", group 2 after it
LinkTargetRaw(v) == IF FirstPos("|", v) = 0 THEN v ELSE SubSeq(v, 1, FirstPos("|", v) - 1)
LinkLabelRaw(v) == IF FirstPos("|", v) = 0 THEN <<>> ELSE DropFirst(v, FirstPos("|", v))
LinkMatches(v) ==
  /\ LinkTargetRaw(v) # <<>>
  /\ FirstPos("|", v) = 0 \/ LinkLabelRaw(v) # <<>>

\* link_sub of inline
link_sub(v, d) ==
  LET target == Strip(LinkTargetRaw(v))
      label == IF LinkLabelRaw(v) # <<>> THEN Strip(LinkLabelRaw(v)) ELSE target
  IN  IF StartsWith(LowerStr(target), <<"f","i","l","e",":">>) THEN OText(label)
      ELSE IF IsExternal(target) THEN OAnchor(<<>>, escape(target), escape(label))
      ELSE IF StartsWith(LowerStr(target), <<"c","a","t","e","g","o","r","y",":">>)
        THEN OAnchor(<<>>,
                     escape(category_slug(DropFirst(target, FirstPos(":", target))) \o DotHtml),
                     escape(label))
      ELSE link_for_target(target, label, d)

\* what inline makes of one lexeme
inline_tok(tok, mode, d) ==
  IF tok.t = "link" /\ IsFileEmbed(tok.v) THEN file_sub(tok.v, mode, d)
  ELSE IF tok.t = "link" /\ LinkMatches(tok.v) THEN link_sub(tok.v, d)
  ELSE OText(LexText(tok))

\* the text after the link substitutions, piece by piece
inline_links(toks, mode, d) == [k \in DOMAIN toks |-> inline_tok(toks[k], mode, d)]

Apostrophe == OText(<<"'">>)
Newline == OText(<<"\n">>)

\* n apostrophes stand at position i
ApostrophesAt(ps, i, n) ==
  /\ i + n - 1 <= Len(ps)
  /\ \A k \in i..(i + n - 1) : ps[k] = Apostrophe

\* a closing delimiter that the end of the text can stand for
ClosingAtOrEnd(ps, from, n) ==
  IF \E j \in from..Len(ps) : ApostrophesAt(ps, j, n)
    THEN CHOOSE j \in from..Len(ps) :
           /\ ApostrophesAt(ps, j, n)
           /\ \A k \in from..(j - 1) : ~ApostrophesAt(ps, k, n)
  ELSE Len(ps) + 1

\* (.*?) and the closing delimiter: the first position from `from` on where n
\* apostrophes stand, no newline before it; 0 when there is none
ClosingAt(ps, from, n) ==
  IF \E j \in from..Len(ps) :
        ApostrophesAt(ps, j, n) /\ \A k \in from..(j - 1) : ps[k] # Newline
    THEN CHOOSE j \in from..Len(ps) :
           /\ ApostrophesAt(ps, j, n)
           /\ \A k \in from..(j - 1) : ~ApostrophesAt(ps, k, n)
  ELSE 0

\* escape(m.group(1)): the text escaped, the markup made before it too
escaped_piece(p) ==
  IF p.t = "text" THEN OText(escape(p.label))
  ELSE [Piece("escaped", <<>>, <<>>, <<>>, <<>>, <<>>, 0, 0) EXCEPT !.inner = <<p>>]

Emphasis(tag, group) ==
  [Piece(tag, <<>>, <<>>, <<>>, <<>>, <<>>, 0, 0) EXCEPT
     !.inner = [k \in DOMAIN group |-> escaped_piece(group[k])]]

\* RE.sub for a delimiter of n apostrophes: the matches from left to right
RECURSIVE emphasis_sub(_, _, _)
emphasis_sub(ps, n, tag) ==
  IF ps = <<>> THEN <<>>
  ELSE IF ApostrophesAt(ps, 1, n) /\ ClosingAt(ps, n + 1, n) # 0
    THEN <<Emphasis(tag, SubSeq(ps, n + 1, ClosingAt(ps, n + 1, n) - 1))>>
         \o emphasis_sub(DropFirst(ps, ClosingAt(ps, n + 1, n) + n - 1), n, tag)
  ELSE <<Head(ps)>> \o emphasis_sub(Tail(ps), n, tag)

\* BOLD_ITALIC_RE, BOLD_RE, ITALIC_RE, in this order
emphasis(ps) ==
  emphasis_sub(emphasis_sub(emphasis_sub(ps, 5, "strongem"), 3, "strong"), 2, "em")

inline(toks, mode, d) == emphasis(inline_links(toks, mode, d))

(***************************************************************************)
(* Lines.                                                                  *)
(***************************************************************************)
IsSpace(tok) == tok.t \in {"sp", "nl"}

RECURSIVE LStripToks(_)
LStripToks(line) ==
  IF line # <<>> /\ IsSpace(Head(line)) THEN LStripToks(Tail(line)) ELSE line

RECURSIVE RStripToks(_)
RStripToks(line) ==
  IF line # <<>> /\ IsSpace(line[Len(line)])
    THEN RStripToks(SubSeq(line, 1, Len(line) - 1)) ELSE line

StripToks(line) == RStripToks(LStripToks(line))

\* the characters of a run of lexemes
RECURSIVE LineText(_)
LineText(line) ==
  IF line = <<>> THEN <<>> ELSE LexText(Head(line)) \o LineText(Tail(line))

HasTok(line, t) == \E k \in DOMAIN line : line[k].t = t

\* CATEGORY_LINK_RE on the span [[v]]
IsCategoryLink(tok) ==
  /\ tok.t = "link"
  /\ StartsWith(LowerStr(tok.v), <<"c","a","t","e","g","o","r","y",":">>)
  /\ LinkTargetRaw(DropFirst(tok.v, 9)) # <<>>

\* the category a category link records: group 1, stripped
CategoryName(tok) == Strip(LinkTargetRaw(DropFirst(tok.v, 9)))

\* strip_categories recording a category at every link, not only at its first
RECURSIVE strip_categories_every(_, _)
strip_categories_every(line, acc) ==
  IF line = <<>> THEN acc
  ELSE IF IsCategoryLink(Head(line))
    THEN strip_categories_every(Tail(line),
           [acc EXCEPT !.cat_set = @ \cup {CategoryName(Head(line))},
                       !.categories = Append(@, CategoryName(Head(line)))])
  ELSE strip_categories_every(Tail(line), [acc EXCEPT !.line = Append(@, Head(line))])

\* strip_categories: acc is [line, categories, cat_set]; the line is rebuilt
\* without its category links, each new category recorded at its first link
RECURSIVE strip_categories_from(_, _)
strip_categories_from(line, acc) ==
  IF line = <<>> THEN acc
  ELSE IF IsCategoryLink(Head(line))
    THEN strip_categories_from(Tail(line),
           IF CategoryName(Head(line)) \in acc.cat_set THEN acc
           ELSE [acc EXCEPT !.cat_set = @ \cup {CategoryName(Head(line))},
                            !.categories = Append(@, CategoryName(Head(line)))])
  ELSE strip_categories_from(Tail(line), [acc EXCEPT !.line = Append(@, Head(line))])

strip_categories(line, categories, cat_set) ==
  strip_categories_from(line, [line |-> <<>>, categories |-> categories, cat_set |-> cat_set])

(***************************************************************************)
(* Blocks: the entries of html_lines, [b, k, n, body, rows, kv].           *)
(*   "open"/"close"  a list tag of kind k ("ul", "ol")                     *)
(*   "li"            a list item, body its inline pieces                   *)
(*   "blank"         an empty line                                         *)
(*   "h"             a heading of level n; body holds one piece with the   *)
(*                   escaped text (label) and the escaped anchor id (href) *)
(*   "p"             a paragraph                                           *)
(*   "table"         a table in HTML: kv tells the key-value layout, body  *)
(*                   the caption, rows the rows of cells [text, is_header] *)
(*   "md"            one line of a Markdown table, k its role ("caption",  *)
(*                   "kvhead", "sep", "kvrow", "kvjoined", "header",       *)
(*                   "row"), n the columns, rows the one row it renders    *)
(*   "aside"         a collapsible container                               *)
(*   "redirect"      the redirect notice                                   *)
(***************************************************************************)
Block(b, k, n, body) == [b |-> b, k |-> k, n |-> n, body |-> body, rows |-> <<>>, kv |-> FALSE]
TableBlock(b, k, n, body, rows, kv) ==
  [b |-> b, k |-> k, n |-> n, body |-> body, rows |-> rows, kv |-> kv]

ListTag(marker) == IF marker = "*" THEN "ul" ELSE "ol"

\* close_lists(to_level) on [list_stack, html_lines]
RECURSIVE close_lists(_, _, _)
close_lists(list_stack, html_lines, to_level) ==
  IF Len(list_stack) > to_level
    THEN close_lists(SubSeq(list_stack, 1, Len(list_stack) - 1),
                     Append(html_lines, Block("close", ListTag(list_stack[Len(list_stack)]), 0, <<>>)),
                     to_level)
  ELSE [list_stack |-> list_stack, html_lines |-> html_lines]

(***************************************************************************)
(* The table run: the loop over table_lines[1:-1].                         *)
(***************************************************************************)
Cell(text, is_header) == [text |-> text, is_header |-> is_header]

\* " ".join(pending_text_lines)
RECURSIVE JoinSpace(_)
JoinSpace(ls) ==
  IF ls = <<>> THEN <<>>
  ELSE IF Len(ls) = 1 THEN ls[1]
  ELSE ls[1] \o <<T_sp>> \o JoinSpace(Tail(ls))

\* flush_pending_into_cell on the table state
flush_pending(ts) ==
  IF ts.pending = <<>> THEN ts
  ELSE IF StripToks(JoinSpace(ts.pending)) # <<>>
    THEN [ts EXCEPT !.current_row = Append(@, Cell(StripToks(JoinSpace(ts.pending)), FALSE)),
                    !.pending = <<>>]
  ELSE [ts EXCEPT !.pending = <<>>]

\* whether the characters of a lexeme hold a "|"
HasPipe(tok) == "|" \in Range(LexText(tok))

FirstPipeTok(part) ==
  IF \E k \in DOMAIN part : HasPipe(part[k])
    THEN CHOOSE k \in DOMAIN part : HasPipe(part[k]) /\ \A j \in 1..(k - 1) : ~HasPipe(part[j])
  ELSE 0

\* the attribute form of a cell part: re.match(r"^[^|]+\|", part), then
\* part.split("|", 1)[1].strip(): what follows the first "|" character
AttrMatches(part) ==
  /\ FirstPipeTok(part) # 0
  /\ Head(LexText(part[1])) # "|"
AttrRest(part) ==
  LET k == FirstPipeTok(part)
      text == LexText(part[k])
      rest == DropFirst(text, FirstPos("|", text))
  IN  StripToks((IF rest = <<>> THEN <<>> ELSE <<Txt(rest)>>) \o DropFirst(part, k))

\* cell_line.split(delimiter) on the lexemes of kind t
RECURSIVE SplitToks(_, _)
SplitToks(line, t) ==
  IF ~HasTok(line, t) THEN <<line>>
  ELSE LET p == CHOOSE k \in DOMAIN line :
                  line[k].t = t /\ \A j \in 1..(k - 1) : line[j].t # t
       IN  <<SubSeq(line, 1, p - 1)>> \o SplitToks(DropFirst(line, p), t)

\* the parts of a cell line
cell_parts(cell_line, is_header) ==
  IF is_header /\ HasTok(cell_line, "dbang") THEN SplitToks(cell_line, "dbang")
  ELSE IF HasTok(cell_line, "dbar") THEN SplitToks(cell_line, "dbar")
  ELSE <<cell_line>>

\* the loop over the parts of a cell line: each part is stripped, reduced to
\* its content when it has the attribute form, freed of category links and
\* appended to the row
RECURSIVE add_cells(_, _, _)
add_cells(ts, parts, is_header) ==
  IF parts = <<>> THEN ts
  ELSE LET p1 == StripToks(Head(parts))
           p2 == IF p1 # <<>> /\ AttrMatches(p1) THEN AttrRest(p1) ELSE p1
           sc == strip_categories(p2, ts.categories, ts.cat_set)
       IN  add_cells([ts EXCEPT !.current_row = Append(@, Cell(sc.line, is_header)),
                                !.categories = sc.categories,
                                !.cat_set = sc.cat_set],
                     Tail(parts), is_header)

\* a cell line starts with "!" or "|"; core[1:].lstrip() is what follows
StartsCell(core) == core[1].t \in {"bar", "bang", "dbar", "dbang"}
CellIsHeader(core) == core[1].t \in {"bang", "dbang"}
CellLine(core) ==
  LStripToks((IF core[1].t = "dbar" THEN <<T_bar>>
              ELSE IF core[1].t = "dbang" THEN <<T_bang>> ELSE <<>>) \o Tail(core))

\* the table state before the first line
TableInit(categories, cat_set) ==
  [ header_text |-> <<>>, rows |-> <<>>, current_row |-> <<>>, pending |-> <<>>,
    categories |-> categories, cat_set |-> cat_set ]

\* one iteration of the loop over table_lines[1:-1]
table_line(ts, tl) ==
  LET core == StripToks(tl) IN
    IF core = <<>> THEN ts
    ELSE IF core[1].t = "tcap" THEN [ts EXCEPT !.header_text = StripToks(Tail(core))]
    ELSE IF core[1].t = "trow"
      THEN LET f == flush_pending(ts) IN
             IF f.current_row # <<>>
               THEN [f EXCEPT !.rows = Append(@, f.current_row), !.current_row = <<>>]
             ELSE f
    ELSE IF StartsCell(core)
      THEN add_cells(flush_pending(ts), cell_parts(CellLine(core), CellIsHeader(core)),
                     CellIsHeader(core))
    ELSE [ts EXCEPT !.pending = Append(@, core)]

RECURSIVE table_lines_loop(_, _)
table_lines_loop(ts, tls) ==
  IF tls = <<>> THEN ts ELSE table_lines_loop(table_line(ts, Head(tls)), Tail(tls))

\* the rows of a closed table run, with the categories its cells recorded
parse_table(table_lines, categories, cat_set) ==
  LET body == SubSeq(table_lines, 2, Len(table_lines) - 1)
      f == flush_pending(table_lines_loop(TableInit(categories, cat_set), body))
  IN  IF f.current_row # <<>>
        THEN [f EXCEPT !.rows = Append(@, f.current_row), !.current_row = <<>>]
      ELSE f

(***************************************************************************)
(* The layout of a table.                                                  *)
(***************************************************************************)
RECURSIVE SeqMax(_)
SeqMax(ns) == IF ns = <<>> THEN 0 ELSE Max(Head(ns), SeqMax(Tail(ns)))

\* the cell counts of the rows
col_counts(rows) == [k \in DOMAIN rows |-> Len(rows[k])]

max_cols(rows) == SeqMax(col_counts(rows))

\* rows with exactly two cells
two_cell_rows(rows) == Cardinality({k \in DOMAIN rows : Len(rows[k]) = 2})

\* int(0.6 * n): the float product, truncated
kv_threshold(n) == Max(1, (6 * n) \div 10)

\* the layout decided by the share of two-cell rows alone
key_value_by_ratio(rows) == two_cell_rows(rows) >= kv_threshold(Len(rows))

key_value_style(rows) ==
  max_cols(rows) = 2 /\ two_cell_rows(rows) >= kv_threshold(Len(rows))

(***************************************************************************)
(* Rendering a closed table run.                                           *)
(***************************************************************************)
\* the cells of the rows, inline-transformed
inline_rows(rows, mode, d) ==
  [r \in DOMAIN rows |->
     [c \in DOMAIN rows[r] |-> Cell(inline(rows[r][c].text, mode, d), rows[r][c].is_header)]]

\* the HTML block of a table
table_html(ts, mode, d) ==
  TableBlock("table", "", max_cols(ts.rows), inline(ts.header_text, mode, d),
             inline_rows(ts.rows, mode, d), key_value_style(ts.rows))

\* the rows after the first, each one line of a generic Markdown table
md_data_rows(rows, n, mode, d) ==
  [r \in 1..(Len(rows) - 1) |->
     TableBlock("md", "row", n, <<>>, inline_rows(<<rows[r + 1]>>, mode, d), FALSE)]

\* the lines of a key-value Markdown table, one per row
md_kv_rows(rows, mode, d) ==
  [r \in DOMAIN rows |->
     TableBlock("md", IF Len(rows[r]) = 2 THEN "kvrow" ELSE "kvjoined", 2, <<>>,
                inline_rows(<<rows[r]>>, mode, d), TRUE)]

\* the Markdown lines of a table: the first row is the header row of a
\* generic table whatever its cells are
table_markdown(ts, mode, d) ==
  IF key_value_style(ts.rows)
    THEN (IF ts.header_text # <<>>
            THEN <<TableBlock("md", "caption", 2, inline(ts.header_text, mode, d), <<>>, TRUE)>>
          ELSE <<>>)
         \o <<TableBlock("md", "kvhead", 2, <<>>, <<>>, TRUE),
              TableBlock("md", "sep", 2, <<>>, <<>>, TRUE)>>
         \o md_kv_rows(ts.rows, mode, d)
  ELSE IF ts.rows # <<>>
    THEN <<TableBlock("md", "header", max_cols(ts.rows), <<>>,
                      inline_rows(<<ts.rows[1]>>, mode, d), FALSE),
           TableBlock("md", "sep", max_cols(ts.rows), <<>>, <<>>, FALSE)>>
         \o md_data_rows(ts.rows, max_cols(ts.rows), mode, d)
  ELSE <<>>

table_blocks(ts, mode, d) ==
  IF mode = "markdown" THEN table_markdown(ts, mode, d) ELSE <<table_html(ts, mode, d)>>

(***************************************************************************)
(* WikiConverter.convert: the locals and one iteration of the line loop.   *)
(***************************************************************************)
MaxHeadingLevel == 6

\* the locals of convert before the line loop
ConvertLocals ==
  [ html_lines |-> <<>>, list_stack |-> <<>>, categories |-> <<>>, cat_set |-> {},
    in_collapse |-> FALSE, collapse_lines |-> <<>>, in_table |-> FALSE, table_lines |-> <<>> ]

\* the length of the run of lexemes of kinds ts the line starts with
RECURSIVE LeadingRun(_, _)
LeadingRun(line, ts) ==
  IF line # <<>> /\ Head(line).t \in ts THEN 1 + LeadingRun(Tail(line), ts) ELSE 0

RECURSIVE TrailingRun(_, _)
TrailingRun(line, ts) ==
  IF line # <<>> /\ line[Len(line)].t \in ts
    THEN 1 + TrailingRun(SubSeq(line, 1, Len(line) - 1), ts) ELSE 0

\* HEADING_RE: ^(=+)([^=].*?)(=+)\s*$
HeadingMatches(line) ==
  /\ LeadingRun(line, {"eq"}) >= 1
  /\ TrailingRun(RStripToks(line), {"eq"}) >= 1
  /\ LeadingRun(line, {"eq"}) + TrailingRun(RStripToks(line), {"eq"}) < Len(RStripToks(line))
HeadingMarkers(line) == LeadingRun(line, {"eq"})
HeadingContent(line) ==
  LET r == RStripToks(line) IN
    Strip(LineText(SubSeq(r, LeadingRun(r, {"eq"}) + 1, Len(r) - TrailingRun(r, {"eq"}))))

\* LIST_ITEM_RE: ^([*#]+)\s*(.*)
ListMatches(line) == LeadingRun(line, {"star", "hash"}) >= 1
ListMarkers(line) ==
  [k \in 1..LeadingRun(line, {"star", "hash"}) |-> line[k].v[1]]
ListBody(line) == LStripToks(DropFirst(line, LeadingRun(line, {"star", "hash"})))

\* the loop over range(current_depth, level) stopping after its first round
open_lists_once(list_stack, html_lines, level, marker_type) ==
  IF Len(list_stack) < level
    THEN [list_stack |-> Append(list_stack, marker_type),
          html_lines |-> Append(html_lines, Block("open", ListTag(marker_type), 0, <<>>))]
  ELSE [list_stack |-> list_stack, html_lines |-> html_lines]

\* `for i in range(current_depth, level)`: open the missing levels, all of
\* the kind of the last marker
RECURSIVE open_lists(_, _, _, _)
open_lists(list_stack, html_lines, level, marker_type) ==
  IF Len(list_stack) < level
    THEN open_lists(Append(list_stack, marker_type),
                    Append(html_lines, Block("open", ListTag(marker_type), 0, <<>>)),
                    level, marker_type)
  ELSE [list_stack |-> list_stack, html_lines |-> html_lines]

\* the list-item branch closing one level further than the item's level and
\* opening that level again
list_item_reopen(st, line, mode, d) ==
  LET markers == ListMarkers(line)
      level == Len(markers)
      marker_type == markers[Len(markers)]
      current_depth == Len(st.list_stack)
      a == open_lists(st.list_stack, st.html_lines, level, marker_type)
      b == IF level < current_depth
             THEN LET x == close_lists(a.list_stack, a.html_lines, level - 1) IN
                    open_lists(x.list_stack, x.html_lines, level, marker_type)
           ELSE a
  IN  [st EXCEPT !.list_stack = b.list_stack,
                 !.html_lines = Append(b.html_lines, Block("li", "", 0, inline(ListBody(line), mode, d)))]

\* the list-item branch of the line loop
list_item(st, line, mode, d) ==
  LET markers == ListMarkers(line)
      level == Len(markers)
      marker_type == markers[Len(markers)]
      current_depth == Len(st.list_stack)
      a == open_lists(st.list_stack, st.html_lines, level, marker_type)
      b == IF level < current_depth THEN close_lists(a.list_stack, a.html_lines, level) ELSE a
      c == IF level # 0 /\ b.list_stack # <<>> /\ b.list_stack[Len(b.list_stack)] # marker_type
             THEN LET x == close_lists(b.list_stack, b.html_lines, level - 1) IN
                    [ list_stack |-> Append(x.list_stack, marker_type),
                      html_lines |-> Append(x.html_lines, Block("open", ListTag(marker_type), 0, <<>>)) ]
           ELSE b
  IN  [st EXCEPT !.list_stack = c.list_stack,
                 !.html_lines = Append(c.html_lines, Block("li", "", 0, inline(ListBody(line), mode, d)))]

\* "\n".join(collapse_lines)
RECURSIVE JoinLines(_)
JoinLines(ls) ==
  IF ls = <<>> THEN <<>>
  ELSE IF Len(ls) = 1 THEN ls[1]
  ELSE ls[1] \o <<T_nl>> \o JoinLines(Tail(ls))

\* the container block without its opening tag and its closing tag
collapse_inner(block) ==
  LET a == IF block # <<>> /\ block[1].t = "divc" THEN Tail(block) ELSE block
      r == RStripToks(a)
  IN  IF r # <<>> /\ r[Len(r)].t = "divx" THEN SubSeq(r, 1, Len(r) - 1) ELSE a

\* the table branch of the line loop, on the closing line
table_close(st, table_lines, mode, d) ==
  LET ts == parse_table(table_lines, st.categories, st.cat_set)
      cl == close_lists(st.list_stack, st.html_lines, 0)
  IN  [st EXCEPT !.table_lines = table_lines,
                 !.categories = ts.categories,
                 !.cat_set = ts.cat_set,
                 !.list_stack = cl.list_stack,
                 !.html_lines = cl.html_lines \o table_blocks(ts, mode, d),
                 !.in_table = FALSE]

\* the normal-line branch of the line loop
normal_line(st, raw, mode, d) ==
  LET sc == strip_categories(raw, st.categories, st.cat_set)
      line == sc.line
      s1 == [st EXCEPT !.categories = sc.categories, !.cat_set = sc.cat_set]
      cl == close_lists(s1.list_stack, s1.html_lines, 0)
      closed == [s1 EXCEPT !.list_stack = cl.list_stack, !.html_lines = cl.html_lines]
  IN  IF StripToks(line) = <<>>
        THEN [closed EXCEPT !.html_lines = Append(@, Block("blank", "", 0, <<>>))]
      ELSE IF HeadingMatches(line)
        THEN [closed EXCEPT !.html_lines =
                Append(@, Block("h", "", Min(HeadingMarkers(line), MaxHeadingLevel),
                                <<OAnchor(<<>>, escape(heading_id(HeadingContent(line))),
                                          escape(HeadingContent(line)))>>))]
      ELSE IF ListMatches(line) THEN list_item(s1, line, mode, d)
      ELSE [closed EXCEPT !.html_lines = Append(@, Block("p", "", 0, inline(line, mode, d)))]

\* the test at the head of the loop without its `not in_collapse`
table_opens_in_container(st, line) ==
  ~st.in_table /\ LStripToks(line) # <<>> /\ LStripToks(line)[1].t = "topen"

\* `not in_collapse and not in_table and line.lstrip().startswith("{|")`
table_opens(st, line) ==
  ~st.in_collapse /\ ~st.in_table /\ LStripToks(line) # <<>> /\ LStripToks(line)[1].t = "topen"

\* one iteration of the line loop of convert
convert_line(st, line, mode, d) ==
  IF table_opens(st, line)
    THEN [st EXCEPT !.in_table = TRUE, !.table_lines = <<line>>]
  ELSE IF st.in_table
    THEN IF StripToks(line) # <<>> /\ StripToks(line)[1].t = "tclose"
           THEN table_close(st, Append(st.table_lines, line), mode, d)
         ELSE [st EXCEPT !.table_lines = Append(@, line)]
  ELSE IF ~st.in_collapse /\ HasTok(line, "divc")
    THEN [st EXCEPT !.in_collapse = TRUE, !.collapse_lines = <<line>>]
  ELSE IF st.in_collapse
    THEN IF HasTok(line, "divx")
           THEN [st EXCEPT !.collapse_lines = Append(@, line),
                           !.html_lines =
                              Append(@, Block("aside", "", 0,
                                              inline(collapse_inner(JoinLines(Append(st.collapse_lines, line))),
                                                     mode, d))),
                           !.in_collapse = FALSE]
         ELSE [st EXCEPT !.collapse_lines = Append(@, line)]
  ELSE normal_line(st, line, mode, d)

(***************************************************************************)
(* WikiConverter.convert: what happens before and after the line loop.     *)
(* A text is a sequence of lines; its character stream has a newline       *)
(* lexeme between the lines.                                               *)
(***************************************************************************)
TextStream(text) == JoinLines(text)

\* text.replace("\r", "")
remove_cr(stream) == SelectSeq(stream, LAMBDA tok : tok.t # "cr")

\* the redirect directive: ^\s*#redirect\s*:?\[\[([^\]]+)]] at the start of the text
AfterDirective(stream) ==
  LET a == LStripToks(stream)
      b == IF a # <<>> /\ a[1].t = "redir" THEN LStripToks(Tail(a)) ELSE <<>>
  IN  IF b # <<>> /\ b[1].t = "colon" THEN Tail(b) ELSE b
is_redirect(stream) ==
  /\ AfterDirective(stream) # <<>>
  /\ AfterDirective(stream)[1].t = "link"
  /\ AfterDirective(stream)[1].v # <<>>
redirect_target(stream) == Strip(AfterDirective(stream)[1].v)

\* the lexemes whose characters hold a brace
HasBrace(tok) == tok.t \in {"lbr", "rbr", "topen", "tclose"}

NextBrace(stream) ==
  IF \E k \in DOMAIN stream : HasBrace(stream[k])
    THEN CHOOSE k \in DOMAIN stream : HasBrace(stream[k]) /\ \A j \in 1..(k - 1) : ~HasBrace(stream[j])
  ELSE 0

\* TEMPLATE_RE.sub("", text): every span {{...}} without a brace inside goes
RECURSIVE template_pass(_)
template_pass(stream) ==
  IF stream = <<>> THEN <<>>
  ELSE IF Head(stream).t = "lbr"
          /\ NextBrace(Tail(stream)) # 0
          /\ Tail(stream)[NextBrace(Tail(stream))].t = "rbr"
    THEN template_pass(DropFirst(Tail(stream), NextBrace(Tail(stream))))
  ELSE <<Head(stream)>> \o template_pass(Tail(stream))

TemplatePasses == 10

\* the passes repeated until one changes nothing, without the limit of the range
RECURSIVE template_loop_unbounded(_, _)
template_loop_unbounded(stream, passes) ==
  IF template_pass(stream) = stream THEN stream
  ELSE template_loop_unbounded(template_pass(stream), passes)

\* `for _ in range(10)`: passes until one changes nothing
RECURSIVE template_loop(_, _)
template_loop(stream, passes) ==
  IF passes = 0 \/ template_pass(stream) = stream THEN stream
  ELSE template_loop(template_pass(stream), passes - 1)

\* outside the directive "#REDIRECT" is a "#" and a word
RECURSIVE expand_redir(_)
expand_redir(line) ==
  IF line = <<>> THEN <<>>
  ELSE IF Head(line).t = "redir" THEN <<T_hash, Txt(Tail(Head(line).v))>> \o expand_redir(Tail(line))
  ELSE <<Head(line)>> \o expand_redir(Tail(line))

\* the lines the loop of convert walks: text.split("\n") after template removal
convert_lines(text) ==
  LET ls == SplitToks(template_loop(remove_cr(TextStream(text)), TemplatePasses), "nl")
  IN  [k \in DOMAIN ls |-> expand_redir(ls[k])]

\* what convert returns: the blocks and the categories
ConvertResult(html, categories) == [html |-> html, categories |-> categories]

\* a redirect return that still records the category links of the text
convert_redirect_recording(body, d) ==
  LET target == redirect_target(remove_cr(TextStream(body))) IN
    ConvertResult(<<Block("redirect", "", 0, <<link_for_target(target, target, d)>>)>>,
                  strip_categories(TextStream(body), <<>>, {}).categories)

\* the early return of convert on a redirect page
convert_redirect(text, d) ==
  LET target == redirect_target(remove_cr(TextStream(text))) IN
    ConvertResult(<<Block("redirect", "", 0, <<link_for_target(target, target, d)>>)>>, <<>>)

\* a return that keeps the lines of a table run left open as a paragraph
convert_end_keeping_table(st) ==
  ConvertResult(close_lists(st.list_stack, st.html_lines, 0).html_lines
                  \o (IF st.in_table
                        THEN <<Block("p", "", 0, <<OText(LineText(JoinLines(st.table_lines)))>>)>>
                      ELSE <<>>),
                st.categories)

\* the return of convert after the line loop
convert_end(st) ==
  ConvertResult(close_lists(st.list_stack, st.html_lines, 0).html_lines, st.categories)

RECURSIVE convert_loop(_, _, _, _)
convert_loop(st, lines, mode, d) ==
  IF lines = <<>> THEN st
  ELSE convert_loop(convert_line(st, Head(lines), mode, d), Tail(lines), mode, d)

\* WikiConverter.convert as a function of the text, the mode and the registry
convert(text, mode, d) ==
  IF is_redirect(remove_cr(TextStream(text))) THEN convert_redirect(text, d)
  ELSE convert_end(convert_loop(ConvertLocals, convert_lines(text), mode, d))

(***************************************************************************)
(* The state.                                                              *)
(***************************************************************************)
VARIABLES
  \* the inputs a run may meet (fixed by Init)
  titles_in,           \* the page titles of the dump
  texts_in,            \* the latest-revision texts of the dump
  olds_in,             \* the lists of older revisions a page may carry
  \* build_pages
  pc,                  \* "register", "convert", "categories", "index", "done"; "idle" outside build_pages
  mode,                \* output_format / converter.mode: "html" or "markdown"
  dump_old_revisions,  \* the flag of build_pages
  used_slugs,          \* used_slugs
  page_slugs,          \* converter.page_slugs: lookup key -> slug
  page_objects,        \* page_objects
  category_map,        \* category_map: category -> the indices of its pages, in order
  converted,           \* how many pages the second loop has been through
  written,             \* the files written so far: name -> blocks
  listed,              \* how many categories the third loop has been through
  \* one call of WikiConverter.convert, line by line
  cv_pc,               \* "start", "lines", "returned"; "idle" when no call is modelled
  text,                \* the text being converted
  lines,               \* the lines of the loop
  line_no,             \* the line the loop is at
  html_lines, list_stack, categories, cat_set,
  in_collapse, collapse_lines, in_table, table_lines,
  result,              \* what convert returned
  \* one run of mw_trim_revisions
  trim_pc,             \* "args", "open", "root", "siteinfo", "pages", "exited"; "idle" when no run is modelled
  argv,                \* the command line: keep, sort_by, force_stdlib
  have_lxml,           \* _HAVE_LXML
  input_readable,      \* whether the input opens and parses
  dump_in,             \* the pages of the input, each the list of its revisions
  has_siteinfo,        \* whether the input has a <siteinfo> element before its pages
  lxml_refuses,        \* whether xf.write refuses an element once the root element is closed
  out,                 \* what has been asked of the output so far, event by event
  root,                \* the pages of the tree being trimmed
  pages_processed,     \* pages_processed
  args_keep,           \* args.keep
  use_streaming,       \* use_streaming
  exit_code            \* the exit status of the process; -1 while it runs

inputVars == <<titles_in, texts_in, olds_in>>
buildVars == <<pc, dump_old_revisions, used_slugs, page_objects, category_map, converted, written,
              listed>>
converterVars == <<mode, page_slugs>>
localVars == <<html_lines, list_stack, categories, cat_set, in_collapse, collapse_lines,
               in_table, table_lines>>
convertVars == <<cv_pc, text, lines, line_no, localVars, result>>
trimVars == <<trim_pc, argv, have_lxml, input_readable, dump_in, has_siteinfo, lxml_refuses, out,
             root, pages_processed, args_keep, use_streaming, exit_code>>
vars == <<inputVars, buildVars, converterVars, convertVars, trimVars>>

\* dict operations
EmptyDict == <<>>
DictPut(d, k, v) == [x \in DOMAIN d \cup {k} |-> IF x = k THEN v ELSE d[x]]
DictSetDefault(d, k, v) == IF k \in DOMAIN d THEN d ELSE DictPut(d, k, v)

\* the parts of the state a specification does not use
BuildIdle ==
  /\ pc = "idle" /\ dump_old_revisions = FALSE /\ used_slugs = {} /\ page_objects = <<>>
  /\ category_map = EmptyDict /\ converted = 0 /\ written = EmptyDict /\ listed = 0
TrimIdle ==
  /\ trim_pc = "idle" /\ argv = <<>> /\ have_lxml = FALSE /\ input_readable = FALSE
  /\ dump_in = <<>> /\ root = <<>> /\ pages_processed = 0 /\ args_keep = 0
  /\ has_siteinfo = FALSE /\ lxml_refuses = FALSE /\ out = <<>>
  /\ use_streaming = FALSE /\ exit_code = -1
InputIdle == titles_in = {} /\ texts_in = {} /\ olds_in = {} /\ TrimIdle
ConvertIdle ==
  /\ cv_pc = "idle" /\ text = <<>> /\ lines = <<>> /\ line_no = 0
  /\ html_lines = <<>> /\ list_stack = <<>> /\ categories = <<>> /\ cat_set = {}
  /\ in_collapse = FALSE /\ collapse_lines = <<>> /\ in_table = FALSE /\ table_lines = <<>>
  /\ result = ConvertResult(<<>>, <<>>)

(***************************************************************************)
(* build_pages: the first loop.                                            *)
(***************************************************************************)
\* the variant keys bound by assignment instead of setdefault
register_variants_assign(d, title, slug) ==
  LET norm == normalize_title(title)
      d1 == DictPut(d, norm, slug)
      d2 == DictPut(d1, ReplaceChar(title, " ", "_"), slug)
  IN  DictPut(d2, ReplaceChar(norm, " ", "_"), slug)

\* the three setdefault registrations of one page in the first loop of build_pages
register_variants(d, title, slug) ==
  LET norm == normalize_title(title)
      d1 == DictSetDefault(d, norm, slug)
      d2 == DictSetDefault(d1, ReplaceChar(title, " ", "_"), slug)
  IN  DictSetDefault(d2, ReplaceChar(norm, " ", "_"), slug)

\* the raw title bound like its variants: only when it is no key yet
register_first_wins(d, title, slug) ==
  register_variants(DictSetDefault(d, title, slug), title, slug)

\* the four registrations of one page: the raw title by assignment
register(d, title, slug) == register_variants(DictPut(d, title, slug), title, slug)

\* Page(title, text=raw.latest_text, slug, revisions=raw.revisions): `older`
\* holds the texts of the revisions before the latest, oldest first
NewPage(title, latest, slug, older) ==
  [title |-> title, text |-> latest, slug |-> slug, categories |-> <<>>, older |-> older]

\* one iteration of the first loop of build_pages, for the next page of the dump
RegisterPage ==
  /\ pc = "register"
  /\ Len(page_objects) < MaxPages
  /\ \E title \in titles_in, latest \in texts_in, older \in olds_in :
       LET slug == slugify(title, used_slugs) IN
         /\ used_slugs' = slugify_used(title, used_slugs)
         /\ page_slugs' = register(page_slugs, title, slug)
         /\ page_objects' = Append(page_objects, NewPage(title, latest, slug, older))
  /\ UNCHANGED <<pc, dump_old_revisions, category_map, converted, written, listed, mode>>
  /\ UNCHANGED <<inputVars, trimVars, convertVars>>

\* the first loop ends: the dump is exhausted or `limit` is reached
EndRegister ==
  /\ pc = "register"
  /\ pc' = "convert"
  /\ UNCHANGED <<dump_old_revisions, used_slugs, page_objects, category_map, converted, written, listed>>
  /\ UNCHANGED <<inputVars, trimVars, converterVars, convertVars>>

(***************************************************************************)
(* build_pages: the second loop.                                           *)
(***************************************************************************)
\* a revision before the latest: Revision(id, text)
Revision(id, body) == [id |-> id, text |-> body]

Ext(fmt) == IF fmt = "html" THEN <<".","h","t","m","l">> ELSE <<".","m","d">>

\* the name of the file of a page, and of one of its older revisions
page_file(p, fmt) == p.slug \o Ext(fmt)
revision_file(p, r, fmt) == p.slug \o <<"/">> \o r.id \o Ext(fmt)

\* the characters of the model in the order of their code points
CodePoints ==
  <<" ", "!", "#", "'", "*", "-", ".", "/">> \o DigitChars \o <<":", "=">> \o UpperAlpha
    \o <<"[", "]", "_">> \o LowerAlpha \o <<"{", "|", "}", "E-acute", "e-acute">>

\* a < b for strings, as Python compares them
RECURSIVE StrLess(_, _)
StrLess(a, b) ==
  IF b = <<>> THEN FALSE
  ELSE IF a = <<>> THEN TRUE
  ELSE IF Head(a) # Head(b) THEN IndexOf(Head(a), CodePoints) < IndexOf(Head(b), CodePoints)
  ELSE StrLess(Tail(a), Tail(b))

\* a written file: what it is, the page it is of, the blocks it holds
\* and, for a page, the links of its category footer
File(kind, page, body) == [kind |-> kind, page |-> page, body |-> body, footer |-> <<>>]

\* the orders sorted(set(cats), key=str.lower) may give: ascending lower-case
\* names, names with the same key in the order the set yields them
sorted_sets(cats) ==
  LET S == {cats[n] : n \in DOMAIN cats} IN
    { order \in [1..Cardinality(S) -> S] :
        /\ \A i \in DOMAIN order : \A j \in DOMAIN order : i # j => order[i] # order[j]
        /\ \A i \in DOMAIN order : \A j \in DOMAIN order :
             i < j => ~StrLess(LowerStr(order[j]), LowerStr(order[i])) }

\* the link of a page's category footer to the category c
footer_link(c) == OAnchor(<<>>, category_slug(c) \o DotHtml, escape(c))

\* the category footers a page document may get; the Markdown document names
\* its categories in the front matter and has no links to them
category_footers(cats, fmt) ==
  IF fmt = "html" THEN { [n \in DOMAIN order |-> footer_link(order[n])] : order \in sorted_sets(cats) }
  ELSE { <<>> }

\* the anchor as the page document has it: the HTML document keeps it, the
\* Markdown document (_anchor_sub) points a link that is not external at ".md"
anchor_sub(piece, fmt) ==
  IF fmt = "html" \/ IsExternal(piece.href) THEN piece
  ELSE [piece EXCEPT !.href = HtmlToMd(piece.href)]

\* the document of the page k: `body` is html_body as convert returned it
PageFile(k, body, footer) == [File("page", k, body) EXCEPT !.footer = footer]

\* the links of a text that the registry does not resolve, bound to their
\* predicted slugs
RECURSIVE remember_missing(_, _)
remember_missing(stream, d) ==
  IF stream = <<>> THEN d
  ELSE IF /\ Head(stream).t = "link"
          /\ first_hit(link_candidates(link_base(Strip(LinkTargetRaw(Head(stream).v)))), d) = <<>>
    THEN remember_missing(Tail(stream),
                          DictPut(d, link_base(Strip(LinkTargetRaw(Head(stream).v))),
                                  predicted_slug(link_base(Strip(LinkTargetRaw(Head(stream).v))))))
  ELSE remember_missing(Tail(stream), d)

\* a converter that remembers the unresolved links of the text it converts
converter_remembering(body, fmt, d) == remember_missing(TextStream(body), d)

\* converter.page_slugs after convert(title, text): convert and
\* _link_for_target only read it
converter_after(body, fmt, d) == d

\* `for c in cats: category_map.setdefault(c, []).append(p)`, p the page k
RECURSIVE add_categories(_, _, _)
add_categories(cm, cats, k) ==
  IF cats = <<>> THEN cm
  ELSE add_categories(
         DictPut(cm, Head(cats), (IF Head(cats) \in DOMAIN cm THEN cm[Head(cats)] ELSE <<>>) \o <<k>>),
         Tail(cats), k)

\* the older revisions the second loop converts for a page
older_revisions(p, dump) == IF dump /\ Len(p.older) + 1 > 1 THEN p.older ELSE <<>>

\* the texts the second loop converts for a page: the latest, then the older
\* revisions
page_texts(p, dump) ==
  <<p.text>> \o [n \in DOMAIN older_revisions(p, dump) |-> older_revisions(p, dump)[n].text]

\* the calls of convert for a page, one after the other on the same
\* converter: their results and converter.page_slugs after them
RECURSIVE convert_all(_, _, _)
convert_all(texts, fmt, d) ==
  IF texts = <<>> THEN [results |-> <<>>, d |-> d]
  ELSE [ results |-> <<convert(Head(texts), fmt, d)>>
                       \o convert_all(Tail(texts), fmt, converter_after(Head(texts), fmt, d)).results,
         d |-> convert_all(Tail(texts), fmt, converter_after(Head(texts), fmt, d)).d ]

\* the files of the older revisions, the revision n from results[n + 1]
RECURSIVE write_revisions(_, _, _, _, _, _)
write_revisions(files, p, k, results, n, fmt) ==
  IF n + 1 > Len(results) THEN files
  ELSE write_revisions(DictPut(files, revision_file(p, p.older[n], fmt),
                               File("revision", k, results[n + 1].html)),
                       p, k, results, n + 1, fmt)

\* one iteration of `for p in page_objects`: the page is converted, its
\* categories are kept and added to category_map, its file is written, and
\* its older revisions are converted and written
ConvertPage ==
  /\ pc = "convert"
  /\ converted < Len(page_objects)
  /\ \E k \in {converted + 1} :
       \E all \in {convert_all(page_texts(page_objects[k], dump_old_revisions), mode, page_slugs)} :
       \E footer \in category_footers(all.results[1].categories, mode) :
         /\ page_objects' = [page_objects EXCEPT ![k].categories = all.results[1].categories]
         /\ category_map' = add_categories(category_map, all.results[1].categories, k)
         /\ written' = write_revisions(
                          DictPut(written, page_file(page_objects[k], mode),
                                  PageFile(k, all.results[1].html, footer)),
                          page_objects[k], k, all.results, 1, mode)
         /\ page_slugs' = all.d
         /\ converted' = k
  /\ UNCHANGED <<pc, dump_old_revisions, used_slugs, listed, mode>>
  /\ UNCHANGED <<inputVars, trimVars, convertVars>>

\* the second loop ends; the category pages come next
EndConvert ==
  /\ pc = "convert"
  /\ converted = Len(page_objects)
  /\ pc' = "categories"
  /\ UNCHANGED <<dump_old_revisions, used_slugs, page_objects, category_map, converted, written, listed>>
  /\ UNCHANGED <<inputVars, trimVars, converterVars, convertVars>>

(***************************************************************************)
(* The second loop with its conversions taken in any order, the categories *)
(* merged afterwards in the order of the pages.                            *)
(***************************************************************************)
\* the texts of the page k: 0 is the latest, n the older revision n
text_of(p, n) == IF n = 0 THEN p.text ELSE p.older[n].text
file_of(p, n, fmt) == IF n = 0 THEN page_file(p, fmt) ELSE revision_file(p, p.older[n], fmt)

\* one conversion of the second loop, of a page or of one of its older
\* revisions, whichever were converted before
ConvertAny ==
  /\ pc = "convert"
  /\ \E k \in DOMAIN page_objects :
       \E n \in {0} \cup DOMAIN older_revisions(page_objects[k], dump_old_revisions) :
         \E r \in {convert(text_of(page_objects[k], n), mode, page_slugs)} :
         \E footer \in IF n = 0 THEN category_footers(r.categories, mode) ELSE {<<>>} :
           /\ file_of(page_objects[k], n, mode) \notin DOMAIN written
           /\ page_objects' = IF n = 0 THEN [page_objects EXCEPT ![k].categories = r.categories]
                              ELSE page_objects
           /\ written' = DictPut(written, file_of(page_objects[k], n, mode),
                                 IF n = 0 THEN PageFile(k, r.html, footer)
                                 ELSE File("revision", k, r.html))
           /\ page_slugs' = converter_after(text_of(page_objects[k], n), mode, page_slugs)
           /\ converted' = IF n = 0 THEN converted + 1 ELSE converted
  /\ UNCHANGED <<pc, dump_old_revisions, used_slugs, category_map, listed, mode>>
  /\ UNCHANGED <<inputVars, trimVars, convertVars>>

\* the categories of the pages from k on, added in the order of the pages
RECURSIVE merge_categories(_, _, _)
merge_categories(cm, pages, k) ==
  IF k > Len(pages) THEN cm
  ELSE merge_categories(add_categories(cm, pages[k].categories, k), pages, k + 1)

AllConverted ==
  \A k \in DOMAIN page_objects :
    /\ page_file(page_objects[k], mode) \in DOMAIN written
    /\ \A n \in DOMAIN older_revisions(page_objects[k], dump_old_revisions) :
         revision_file(page_objects[k], page_objects[k].older[n], mode) \in DOMAIN written

\* every conversion is done: the merge
MergeCategories ==
  /\ pc = "convert"
  /\ AllConverted
  /\ category_map' = merge_categories(EmptyDict, page_objects, 1)
  /\ pc' = "categories"
  /\ UNCHANGED <<dump_old_revisions, used_slugs, page_objects, converted, written, listed>>
  /\ UNCHANGED <<inputVars, trimVars, converterVars, convertVars>>

NextAnyOrder == RegisterPage \/ EndRegister \/ ConvertAny \/ MergeCategories

(***************************************************************************)
(* build_pages: the third loop, one listing per category.                  *)
(***************************************************************************)
\* sorted(xs, key=...) is stable: x goes behind the entries whose key is not
\* greater; an entry is [x, key]
RECURSIVE insert_sorted(_, _, _)
insert_sorted(sorted, x, key_x) ==
  IF sorted = <<>> THEN <<[x |-> x, key |-> key_x]>>
  ELSE IF StrLess(key_x, Head(sorted).key)
    THEN <<[x |-> x, key |-> key_x]>> \o sorted
  ELSE <<Head(sorted)>> \o insert_sorted(Tail(sorted), x, key_x)

\* the keys of category_map in the order they were inserted: the categories of
\* the pages, page after page, each at its first occurrence
RECURSIVE categories_of(_)
categories_of(pages) ==
  IF pages = <<>> THEN <<>> ELSE Head(pages).categories \o categories_of(Tail(pages))
category_keys(pages) == Dedupe(categories_of(pages), {})

\* sorted(category_map.items(), key=lambda kv: kv[0].lower()): the names
RECURSIVE sort_categories(_, _)
sort_categories(sorted, names) ==
  IF names = <<>> THEN [n \in DOMAIN sorted |-> sorted[n].x]
  ELSE sort_categories(insert_sorted(sorted, Head(names), LowerStr(Head(names))), Tail(names))
sorted_categories(pages) == sort_categories(<<>>, category_keys(pages))

\* sorted(plist, key=lambda x: x.title.lower()): the indices of the pages
RECURSIVE sort_pages(_, _, _)
sort_pages(sorted, plist, pages) ==
  IF plist = <<>> THEN [n \in DOMAIN sorted |-> sorted[n].x]
  ELSE sort_pages(insert_sorted(sorted, Head(plist), LowerStr(pages[Head(plist)].title)),
                  Tail(plist), pages)

\* the first suffix the third loop tries
CategoryFirstSuffix == 2

\* final_slug: the category slug, suffixed while it is a slug of used_slugs
category_final_slug(cat, used) ==
  SlugLoop(category_slug(cat), category_slug(cat), CategoryFirstSuffix, used)

\* used_slugs after the iteration of a category: the loop only reads it
category_used(cat, used) == used

category_file(cat, used, fmt) == category_final_slug(cat, used) \o Ext(fmt)

\* the listing of a category: its heading and one entry per page of plist,
\* the pages sorted by lower-case title
category_listing(cat, plist, pages, fmt) ==
  <<Block("h", "", 1, <<OText(<<"C","a","t","e","g","o","r","y",":"," ">> \o (IF fmt = "html" THEN escape(cat) ELSE cat))>>)>>
  \o [n \in DOMAIN plist |->
        LET p == pages[sort_pages(<<>>, plist, pages)[n]] IN
          Block("li", "", 0,
                <<OAnchor(<<>>, p.slug \o Ext(fmt),
                          IF fmt = "html" THEN escape(p.title) ELSE p.title)>>)]

\* one iteration of the third loop: the listing of the next category, in the
\* order of the lower-case names, is written under its final slug
WriteCategory ==
  /\ pc = "categories"
  /\ listed < Len(sorted_categories(page_objects))
  /\ \E cat \in {sorted_categories(page_objects)[listed + 1]} :
       /\ written' = DictPut(written, category_file(cat, used_slugs, mode),
                             File("category", 0,
                                  category_listing(cat, category_map[cat], page_objects, mode)))
       /\ used_slugs' = category_used(cat, used_slugs)
  /\ listed' = listed + 1
  /\ UNCHANGED <<pc, dump_old_revisions, page_objects, category_map, converted>>
  /\ UNCHANGED <<inputVars, trimVars, converterVars, convertVars>>

\* the third loop ends; the index comes next
EndCategories ==
  /\ pc = "categories"
  /\ listed = Len(sorted_categories(page_objects))
  /\ pc' = "index"
  /\ UNCHANGED <<dump_old_revisions, used_slugs, page_objects, category_map, converted, written,
                 listed>>
  /\ UNCHANGED <<inputVars, trimVars, converterVars, convertVars>>

(***************************************************************************)
(* build_pages: the index.                                                 *)
(***************************************************************************)
\* the name of the index document
index_file(fmt) == <<"i","n","d","e","x">> \o Ext(fmt)

\* the entry of the index for the category cat
index_category_link(cat, fmt) ==
  OAnchor(<<>>, category_slug(cat) \o Ext(fmt), IF fmt = "html" THEN escape(cat) ELSE cat)

\* the index: one entry per page, the pages sorted by lower-case title, and,
\* when there is a category, one entry per category, sorted by lower-case name
index_document(pages, fmt) ==
  LET order == sort_pages(<<>>, [k \in DOMAIN pages |-> k], pages)
      cats == sorted_categories(pages)
  IN  <<Block("h", "", 1, <<OText(<<"P","a","g","e","s">>)>>)>>
      \o [n \in DOMAIN order |->
            Block("li", "", 0,
                  <<OAnchor(<<>>, pages[order[n]].slug \o Ext(fmt),
                            IF fmt = "html" THEN escape(pages[order[n]].title)
                            ELSE pages[order[n]].title)>>)]
      \o (IF cats = <<>> THEN <<>> ELSE <<Block("h", "", 2, <<OText(<<"C","a","t","e","g","o","r","i","e","s">>)>>)>>)
      \o [n \in DOMAIN cats |-> Block("li", "", 0, <<index_category_link(cats[n], fmt)>>)]

\* the index is written, and build_pages returns
WriteIndex ==
  /\ pc = "index"
  /\ written' = DictPut(written, index_file(mode),
                        File("index", 0, index_document(page_objects, mode)))
  /\ pc' = "done"
  /\ UNCHANGED <<dump_old_revisions, used_slugs, page_objects, category_map, converted, listed>>
  /\ UNCHANGED <<inputVars, trimVars, converterVars, convertVars>>

NextBuild ==
  RegisterPage \/ EndRegister \/ ConvertPage \/ EndConvert \/ WriteCategory \/ EndCategories
    \/ WriteIndex

(***************************************************************************)
(* mw_trim_revisions: a page is the list of its <revision> elements, a     *)
(* revision [id, timestamp] the texts of its <id> and <timestamp>; <<>>    *)
(* stands for an element that is absent or has no text.                    *)
(***************************************************************************)
RevisionElem(id, timestamp) == [id |-> id, timestamp |-> timestamp]

\* int(rid_elem.text.strip()) raises ValueError on a text that is no numeral
rid_raises(rev) == rev.id # <<>> /\ ~IsDigits(StripSet(rev.id, Whitespace))

\* rid: int(rid_elem.text.strip()), -1 without an id
rid_of(rev) == IF rev.id = <<>> THEN -1 ELSE ParseInt(StripSet(rev.id, Whitespace))

\* ts: ts_elem.text.strip(), '' without a timestamp
ts_of(rev) == StripSet(rev.timestamp, Whitespace)

\* the sort key of a revision: (ts, rid) by timestamp, rid by id
key_less(sort_by, a, b) ==
  IF sort_by = "timestamp"
    THEN StrLess(ts_of(a), ts_of(b)) \/ (ts_of(a) = ts_of(b) /\ rid_of(a) < rid_of(b))
  ELSE rid_of(a) < rid_of(b)

\* list.sort(key=...) is stable: a revision goes behind those whose key is not greater
RECURSIVE insert_info(_, _, _)
insert_info(sorted, rev, sort_by) ==
  IF sorted = <<>> THEN <<rev>>
  ELSE IF key_less(sort_by, rev, Head(sorted)) THEN <<rev>> \o sorted
  ELSE <<Head(sorted)>> \o insert_info(Tail(sorted), rev, sort_by)

RECURSIVE sort_infos(_, _, _)
sort_infos(sorted, revisions, sort_by) ==
  IF revisions = <<>> THEN sorted
  ELSE sort_infos(insert_info(sorted, Head(revisions), sort_by), Tail(revisions), sort_by)

\* s[-keep:] for 1 <= keep <= len(s)
LastOf(s, keep) == SubSeq(s, Len(s) - keep + 1, Len(s))

\* keep_set: the ids of the last keep entries of the sorted rev_infos
keep_set(revisions, keep, sort_by) ==
  {rid_of(r) : r \in Range(LastOf(sort_infos(<<>>, revisions, sort_by), keep))}

\* the revisions the last loop leaves in the page: those whose id is in keep_set
keep_listed(revisions, ids) ==
  LET Kept(r) == rid_of(r) \in ids IN SelectSeq(revisions, Kept)

\* trim_page_lxml and trim_page_stdlib are the same statements; what the page
\* holds on return
trim_page(revisions, keep, sort_by) ==
  IF Len(revisions) <= keep THEN revisions
  ELSE IF sort_by \in {"timestamp", "id"}
    THEN keep_listed(revisions, keep_set(revisions, keep, sort_by))
  ELSE LastOf(revisions, keep)

trim_page_lxml(revisions, keep, sort_by) == trim_page(revisions, keep, sort_by)
trim_page_stdlib(revisions, keep, sort_by) == trim_page(revisions, keep, sort_by)

\* the call raises ValueError: the sorting modes read the id of every revision
trim_page_raises(revisions, keep, sort_by) ==
  /\ Len(revisions) > keep
  /\ sort_by \in {"timestamp", "id"}
  /\ \E k \in DOMAIN revisions : rid_raises(revisions[k])

(***************************************************************************)
(* The output: the root element is opened and closed, and an element, the  *)
(* <siteinfo> or the page n, is handed to the writer, which takes it or    *)
(* refuses it.                                                             *)
(***************************************************************************)
OutEvent(e, elem, n) == [e |-> e, elem |-> elem, n |-> n]
OpenRoot == OutEvent("open", "mediawiki", 0)
CloseRoot == OutEvent("close", "mediawiki", 0)
WriteElem(elem, n, refused) == OutEvent(IF refused THEN "refused" ELSE "write", elem, n)

\* `with xf.element(root.tag, ...): continue`: the context is entered and,
\* by the continue, left at once
root_element == <<OpenRoot, CloseRoot>>

\* xf.write(elem) of the streaming loop: the writer refuses the element, with
\* an exception, when its root element is closed and the library checks it
write_refused(events) == lxml_refuses /\ CloseRoot \in Range(events)

\* tree.write(out, ...): the whole tree, the root element around its children
tree_write(siteinfo, pages) ==
  <<OpenRoot>> \o (IF siteinfo THEN <<WriteElem("siteinfo", 0, FALSE)>> ELSE <<>>)
    \o [n \in DOMAIN pages |-> WriteElem("page", n, FALSE)] \o <<CloseRoot>>

(***************************************************************************)
(* main: parse_args, then the pages one by one.                            *)
(***************************************************************************)
\* parse_args: argparse's type=int and the test keep < 1 end in p.error(),
\* which exits the process with status 2
ParseArgs ==
  /\ trim_pc = "args"
  /\ IF ~IsDigits(argv.keep) \/ ParseInt(argv.keep) < 1
       THEN /\ exit_code' = 2
            /\ trim_pc' = "exited"
            /\ UNCHANGED <<args_keep, use_streaming>>
       ELSE /\ args_keep' = ParseInt(argv.keep)
            /\ use_streaming' = (have_lxml /\ ~argv.force_stdlib)
            /\ trim_pc' = "open"
            /\ UNCHANGED exit_code
  /\ UNCHANGED <<argv, have_lxml, input_readable, dump_in, has_siteinfo, lxml_refuses, out, root,
                 pages_processed>>
  /\ UNCHANGED <<inputVars, buildVars, converterVars, convertVars>>

\* main: smart_open and the parse of the input; an exception ends in return 1
OpenInput ==
  /\ trim_pc = "open"
  /\ IF input_readable
       THEN /\ root' = dump_in
            /\ trim_pc' = IF use_streaming THEN "root" ELSE "pages"
            /\ UNCHANGED exit_code
       ELSE /\ exit_code' = 1
            /\ trim_pc' = "exited"
            /\ UNCHANGED root
  /\ UNCHANGED <<argv, have_lxml, input_readable, dump_in, has_siteinfo, lxml_refuses, out,
                 pages_processed, args_keep, use_streaming>>
  /\ UNCHANGED <<inputVars, buildVars, converterVars, convertVars>>

\* stream_trim_lxml: the first start event, that of the root element
StartRoot ==
  /\ trim_pc = "root"
  /\ out' = out \o root_element
  /\ trim_pc' = "siteinfo"
  /\ UNCHANGED <<argv, have_lxml, input_readable, dump_in, has_siteinfo, lxml_refuses, root,
                 pages_processed, args_keep, use_streaming, exit_code>>
  /\ UNCHANGED <<inputVars, buildVars, converterVars, convertVars>>

\* stream_trim_lxml: the end event of <siteinfo>, if the dump has one
EndSiteinfo ==
  /\ trim_pc = "siteinfo"
  /\ IF has_siteinfo
       THEN /\ out' = Append(out, WriteElem("siteinfo", 0, write_refused(out)))
            /\ trim_pc' = IF write_refused(out) THEN "exited" ELSE "pages"
            /\ exit_code' = IF write_refused(out) THEN 1 ELSE exit_code
       ELSE /\ trim_pc' = "pages"
            /\ UNCHANGED <<out, exit_code>>
  /\ UNCHANGED <<argv, have_lxml, input_readable, dump_in, has_siteinfo, lxml_refuses, root,
                 pages_processed, args_keep, use_streaming>>
  /\ UNCHANGED <<inputVars, buildVars, converterVars, convertVars>>

\* stream_trim_lxml / fulltree_trim_stdlib: one page of the loop; the
\* streaming loop hands the trimmed page to the writer
TrimPage ==
  /\ trim_pc = "pages"
  /\ pages_processed < Len(root)
  /\ \E page \in {root[pages_processed + 1]} :
       IF trim_page_raises(page, args_keep, argv.sort_by)
         THEN /\ exit_code' = 1
              /\ trim_pc' = "exited"
              /\ UNCHANGED <<root, pages_processed, out>>
         ELSE /\ root' = [root EXCEPT ![pages_processed + 1] =
                            IF use_streaming
                              THEN trim_page_lxml(page, args_keep, argv.sort_by)
                              ELSE trim_page_stdlib(page, args_keep, argv.sort_by)]
              /\ IF use_streaming
                   THEN /\ out' = Append(out, WriteElem("page", pages_processed + 1,
                                                        write_refused(out)))
                        /\ IF write_refused(out)
                             THEN /\ exit_code' = 1
                                  /\ trim_pc' = "exited"
                                  /\ UNCHANGED pages_processed
                             ELSE /\ pages_processed' = pages_processed + 1
                                  /\ UNCHANGED <<trim_pc, exit_code>>
                   ELSE /\ pages_processed' = pages_processed + 1
                        /\ UNCHANGED <<trim_pc, exit_code, out>>
  /\ UNCHANGED <<argv, have_lxml, input_readable, dump_in, has_siteinfo, lxml_refuses, args_keep,
                 use_streaming>>
  /\ UNCHANGED <<inputVars, buildVars, converterVars, convertVars>>

\* main: the loop is over; the full-tree mode writes the tree; return 0
EndTrim ==
  /\ trim_pc = "pages"
  /\ pages_processed = Len(root)
  /\ out' = IF use_streaming THEN out ELSE tree_write(has_siteinfo, root)
  /\ exit_code' = 0
  /\ trim_pc' = "exited"
  /\ UNCHANGED <<argv, have_lxml, input_readable, dump_in, has_siteinfo, lxml_refuses, root,
                 pages_processed, args_keep, use_streaming>>
  /\ UNCHANGED <<inputVars, buildVars, converterVars, convertVars>>

NextTrim == ParseArgs \/ OpenInput \/ StartRoot \/ EndSiteinfo \/ TrimPage \/ EndTrim

(***************************************************************************)
(* One call of WikiConverter.convert, step by step: the part before the    *)
(* loop, one step per line, and the return.  The converter it is called on *)
(* is <<mode, page_slugs>>.                                                *)
(***************************************************************************)
Locals ==
  [ html_lines |-> html_lines, list_stack |-> list_stack, categories |-> categories,
    cat_set |-> cat_set, in_collapse |-> in_collapse, collapse_lines |-> collapse_lines,
    in_table |-> in_table, table_lines |-> table_lines ]

SetLocals(st) ==
  /\ html_lines' = st.html_lines
  /\ list_stack' = st.list_stack
  /\ categories' = st.categories
  /\ cat_set' = st.cat_set
  /\ in_collapse' = st.in_collapse
  /\ collapse_lines' = st.collapse_lines
  /\ in_table' = st.in_table
  /\ table_lines' = st.table_lines

\* the redirect test and early return, or template removal and the set-up of the loop
ConvertBegin ==
  /\ cv_pc = "start"
  /\ IF is_redirect(remove_cr(TextStream(text)))
       THEN /\ result' = convert_redirect(text, page_slugs)
            /\ cv_pc' = "returned"
            /\ UNCHANGED <<lines, line_no, localVars>>
     ELSE /\ lines' = convert_lines(text)
          /\ line_no' = 1
          /\ SetLocals(ConvertLocals)
          /\ cv_pc' = "lines"
          /\ UNCHANGED result
  /\ UNCHANGED <<text, inputVars, trimVars, buildVars, converterVars>>

\* an exception left inline while the pieces were made
RECURSIVE piece_raises(_)
piece_raises(p) ==
  p.t = "OverflowError" \/ \E k \in DOMAIN p.inner : piece_raises(p.inner[k])
pieces_raise(ps) == \E k \in DOMAIN ps : piece_raises(ps[k])
block_raises(blk) ==
  \/ pieces_raise(blk.body)
  \/ \E r \in DOMAIN blk.rows : \E c \in DOMAIN blk.rows[r] : pieces_raise(blk.rows[r][c].text)

\* one iteration of `for line in lines`; an exception ends the call, nothing
\* is returned
ConvertLine ==
  /\ cv_pc = "lines"
  /\ line_no <= Len(lines)
  /\ \E st \in {convert_line(Locals, lines[line_no], mode, page_slugs)} :
       IF \E k \in DOMAIN st.html_lines : block_raises(st.html_lines[k])
         THEN /\ cv_pc' = "raised"
              /\ UNCHANGED <<line_no, localVars>>
       ELSE /\ SetLocals(st)
            /\ line_no' = line_no + 1
            /\ UNCHANGED cv_pc
  /\ UNCHANGED <<text, lines, result>>
  /\ UNCHANGED <<inputVars, trimVars, buildVars, converterVars>>

\* after the loop: close_lists(0) and return
ConvertEnd ==
  /\ cv_pc = "lines"
  /\ line_no > Len(lines)
  /\ html_lines' = close_lists(list_stack, html_lines, 0).html_lines
  /\ list_stack' = close_lists(list_stack, html_lines, 0).list_stack
  /\ result' = convert_end(Locals)
  /\ cv_pc' = "returned"
  /\ UNCHANGED <<categories, cat_set, in_collapse, collapse_lines, in_table, table_lines>>
  /\ UNCHANGED <<text, lines, line_no>>
  /\ UNCHANGED <<inputVars, trimVars, buildVars, converterVars>>

NextConvert == ConvertBegin \/ ConvertLine \/ ConvertEnd

(***************************************************************************)
(* The slug-assignment pass on its own.                                    *)
(***************************************************************************)
SlugTitles ==
  { <<"a">>, <<"A">>, <<"a"," ","b">>, <<"a","_","b">>, <<"a"," ","2">>, <<"!">>, <<"e-acute">>, <<"e">> }

InitSlug ==
  /\ titles_in = SlugTitles /\ texts_in = {<<>>} /\ olds_in = {<<>>} /\ TrimIdle
  /\ pc = "register" /\ dump_old_revisions = FALSE /\ used_slugs = {} /\ page_objects = <<>>
  /\ category_map = EmptyDict /\ converted = 0 /\ written = EmptyDict /\ listed = 0
  /\ mode = "html" /\ page_slugs = EmptyDict
  /\ ConvertIdle

NextSlug == RegisterPage \/ EndRegister

SpecSlug == InitSlug /\ [][NextSlug]_vars

(***************************************************************************)
(* Calls of convert on texts made of up to MaxLines lines of a vocabulary. *)
(***************************************************************************)
MaxLines == 3

RECURSIVE TextsOver(_, _)
TextsOver(vocabulary, n) ==
  IF n = 0 THEN {<<>>}
  ELSE TextsOver(vocabulary, n - 1)
         \cup {Append(t, l) : t \in TextsOver(vocabulary, n - 1), l \in vocabulary}

\* the registry of a converter that knows the pages "A" and "B c"
KnownPages == register(register(EmptyDict, <<"A">>, <<"a">>), <<"B"," ","c">>, <<"b","-","c">>)

InitConvertWith(texts, registries) ==
  /\ InputIdle /\ BuildIdle
  /\ mode \in {"html", "markdown"}
  /\ page_slugs \in registries
  /\ text \in texts
  /\ cv_pc = "start" /\ lines = <<>> /\ line_no = 0
  /\ html_lines = <<>> /\ list_stack = <<>> /\ categories = <<>> /\ cat_set = {}
  /\ in_collapse = FALSE /\ collapse_lines = <<>> /\ in_table = FALSE /\ table_lines = <<>>
  /\ result = ConvertResult(<<>>, <<>>)

InitConvertOn(texts) == InitConvertWith(texts, {KnownPages})

\* list lines: "* a", "** b", "* c", "# d", "*# e", a paragraph, an empty line
ListLines ==
  { <<T_star, T_sp, Txt(<<"a">>)>>,
    <<T_star, T_star, T_sp, Txt(<<"b">>)>>,
    <<T_star, T_sp, Txt(<<"c">>)>>,
    <<T_hash, T_sp, Txt(<<"d">>)>>,
    <<T_star, T_hash, T_sp, Txt(<<"e">>)>>,
    <<Txt(<<"p">>)>>,
    <<>> }

InitConvert(vocabulary) == InitConvertOn(TextsOver(vocabulary, MaxLines))

SpecList == InitConvert(ListLines) /\ [][NextConvert]_vars

(***************************************************************************)
(* build_pages on dumps of up to MaxPages pages.                           *)
(***************************************************************************)
InitBuild(titles, texts, olds, dumps) ==
  /\ mode \in {"html", "markdown"}
  /\ dump_old_revisions \in dumps
  /\ titles_in = titles /\ texts_in = texts
  /\ olds_in = IF dump_old_revisions THEN olds ELSE {<<>>}
  /\ pc = "register" /\ used_slugs = {} /\ page_objects = <<>>
  /\ category_map = EmptyDict /\ converted = 0 /\ written = EmptyDict /\ listed = 0
  /\ page_slugs = EmptyDict
  /\ ConvertIdle /\ TrimIdle

\* pages "A" and "B c" whose texts link to "A", "B c" and the absent "Zed"
LinkTitles == { <<"A">>, <<"B"," ","c">> }
LinkTexts ==
  { << <<Txt(<<"s","e","e">>), T_sp, Link(<<"A">>), T_sp, Link(<<"B"," ","c">>)>> >>,
    << <<T_star, T_sp, Link(<<"B"," ","c">>), Link(<<"Z","e","d">>)>>, <<Link(<<"C","a","t","e","g","o","r","y",":","K">>)>> >> }
LinkOlds == { <<>>, <<Revision(<<"7">>, << <<Link(<<"Z","e","d">>), Link(<<"A">>)>> >>)>> }

Init == InitBuild(LinkTitles, LinkTexts, LinkOlds, BOOLEAN)
Next == NextBuild
Spec == Init /\ [][Next]_vars

\* dumps of pages that all have an older revision, old revisions dumped, with
\* the conversions of the second loop in any order
InitAnyOrder == InitBuild({<<"A">>}, LinkTexts, LinkOlds \ {<<>>}, {TRUE})
SpecAnyOrder == InitAnyOrder /\ [][NextAnyOrder]_vars

\* pages whose texts reference categories: twice on a line, with a sort key
\* and spaces, in another case, in table cells, in a list item, inside a
\* collapsible container, on a redirect page
CategoryTexts ==
  { << <<Link(<<"C","a","t","e","g","o","r","y",":","F","o","o">>), Link(<<"C","a","t","e","g","o","r","y",":","F","o","o">>)>> >>,
    << <<Txt(<<"x">>), T_sp, Link(<<"C","a","t","e","g","o","r","y",":"," ","F","o","o"," ","|","k">>)>>,
       <<Link(<<"c","a","t","e","g","o","r","y",":","f","o","o">>), T_sp, Link(<<"C","a","t","e","g","o","r","y",":","B","a","r">>)>>,
       <<Link(<<"C","a","t","e","g","o","r","y",":","F","o","o">>)>> >>,
    << <<T_topen>>,
       <<T_bar, T_sp, Link(<<"C","a","t","e","g","o","r","y",":","B","a","r">>), T_sp, Txt(<<"c">>), T_sp, T_dbar, T_sp, Link(<<"C","a","t","e","g","o","r","y",":","F","o","o">>)>>,
       <<T_tclose>>,
       <<Link(<<"C","a","t","e","g","o","r","y",":","B","a","r">>)>> >>,
    << <<T_divc>>, <<Link(<<"C","a","t","e","g","o","r","y",":","F","o","o">>)>>, <<T_divx>> >>,
    << <<T_redir, T_sp, Link(<<"A">>)>>, <<Link(<<"C","a","t","e","g","o","r","y",":","F","o","o">>)>> >>,
    << <<T_star, T_sp, Link(<<"C","a","t","e","g","o","r","y",":","B","a","r">>), T_sp, Txt(<<"i","t","e","m">>)>>, <<Link(<<"C","a","t","e","g","o","r","y",":","F","o","o">>)>> >> }

SpecCategories == InitBuild({<<"A">>}, CategoryTexts, {<<>>}, {FALSE}) /\ [][NextBuild]_vars

\* redirect directives ("#REDIRECT [[A]]", " #redirect:[[Zed#s]]") and what may
\* follow them: a category link, a list item, a table, a template
RedirectLines ==
  { <<T_redir, T_sp, Link(<<"A">>)>>,
    <<T_sp, T_redir_lc, T_colon, Link(<<"Z","e","d","#","s">>)>> }
BodyLines ==
  { <<Link(<<"C","a","t","e","g","o","r","y",":","F","o","o">>)>>,
    <<T_star, T_sp, Txt(<<"a">>)>>,
    <<T_topen>>,
    <<T_bar, T_sp, Txt(<<"x">>), T_sp, Link(<<"C","a","t","e","g","o","r","y",":","B","a","r">>)>>,
    <<T_tclose>>,
    <<T_lbr, Txt(<<"t">>), T_rbr>> }

SpecRedirect == InitConvert(RedirectLines \cup BodyLines) /\ [][NextConvert]_vars

\* tables: "{|", up to MaxTableLines lines of one, two or three cells and row
\* separators, "|}"
MaxTableLines == 5
TableLines ==
  { <<T_bar, T_sp, Txt(<<"a">>)>>,
    <<T_bar, T_sp, Txt(<<"a">>), T_sp, T_dbar, T_sp, Txt(<<"b">>)>>,
    <<T_bar, T_sp, Txt(<<"a">>), T_sp, T_dbar, T_sp, Txt(<<"b">>), T_sp, T_dbar, T_sp, Txt(<<"c">>)>>,
    <<T_trow>> }
TableTexts == {<<<<T_topen>>>> \o inner \o <<<<T_tclose>>>> : inner \in TextsOver(TableLines, MaxTableLines)}

SpecTable == InitConvertOn(TableTexts) /\ [][NextConvert]_vars

\* file embeds: a paragraph that is one embed [[File:name|option|...]] with up
\* to MaxOpts options
MaxOpts == 3
FileNames == { <<"V","i","d","e","o",".","o","g","g">>, <<"Y","o","u","T","u","b","e",".","p","n","g">>, <<"m","y","_","y","o","u","t","u","b","e","_","i","c","o","n",".","s","v","g">> }
CaptionOptions == { <<"A"," ","c","a","p","t","i","o","n">> }
TechnicalOptions ==
  { <<"t","h","u","m","b">>, <<"l","i","n","k","=","h","t","t","p","s",":","/","/","y","o","u","t","u",".","b","e","/","x","y","z">>, <<"l","i","n","k","=","A">>, <<"2","0","0","p","x">>, <<"a","l","t","=","x">> }

RECURSIVE OptionLists(_)
OptionLists(n) ==
  IF n = 0 THEN {<<>>}
  ELSE OptionLists(n - 1)
         \cup {Append(os, o) : os \in OptionLists(n - 1), o \in CaptionOptions \cup TechnicalOptions}

RECURSIVE JoinOptions(_)
JoinOptions(os) == IF os = <<>> THEN <<>> ELSE <<"|">> \o Head(os) \o JoinOptions(Tail(os))

Embed(name, os) == Link(<<"F","i","l","e",":">> \o name \o JoinOptions(os))
FileTexts == { << <<Embed(name, os)>> >> : name \in FileNames, os \in OptionLists(MaxOpts) }

SpecFile == InitConvertOn(FileTexts) /\ [][NextConvert]_vars

\* emphasis: "'''text", "'''bold'''", "''it''", "'''''bi'''''", "''''x", "it's",
\* "* '''item", "''[[A]]''"
EmphasisLines ==
  { <<T_apos, T_apos, T_apos, Txt(<<"t","e","x","t">>)>>,
    <<T_apos, T_apos, T_apos, Txt(<<"b","o","l","d">>), T_apos, T_apos, T_apos>>,
    <<T_apos, T_apos, Txt(<<"i","t">>), T_apos, T_apos>>,
    <<T_apos, T_apos, T_apos, T_apos, T_apos, Txt(<<"b","i">>), T_apos, T_apos, T_apos, T_apos, T_apos>>,
    <<T_apos, T_apos, T_apos, T_apos, Txt(<<"x">>)>>,
    <<Txt(<<"i","t">>), T_apos, Txt(<<"s">>)>>,
    <<T_star, T_sp, T_apos, T_apos, T_apos, Txt(<<"i","t","e","m">>)>>,
    <<T_apos, T_apos, Link(<<"A">>), T_apos, T_apos>> }

SpecEmphasis == InitConvert(EmphasisLines) /\ [][NextConvert]_vars

\* file embeds with sizes: explicit sizes, upright factors, very large and very
\* small numbers (a width of 310 digits, a factor of 310 digits)
Nines(n) == [k \in 1..n |-> "9"]
SizeOptions ==
  { <<"2","0","0","p","x">>, <<"0","p","x">>, <<"9","9","9","9","9","x","9","9","9","9","9","p","x">>,
    Nines(310) \o <<"p","x">>, Nines(310) \o <<"x","2","0","p","x">>,
    <<"u","p","r","i","g","h","t">>, <<"u","p","r","i","g","h","t","=",".","5">>, <<"u","p","r","i","g","h","t","=">> \o Nines(310) }

RECURSIVE SizeOptionLists(_)
SizeOptionLists(n) ==
  IF n = 0 THEN {<<>>}
  ELSE SizeOptionLists(n - 1)
         \cup {Append(os, o) : os \in SizeOptionLists(n - 1), o \in SizeOptions}

SizeTexts == { << <<Embed(<<"M","a","p",".","p","n","g">>, os)>> >> : os \in SizeOptionLists(MaxOpts) }

SpecSizes == InitConvertOn(SizeTexts) /\ [][NextConvert]_vars

\* pages "A" and "Category Foo" (whose slug is that of the category "Foo") in
\* the categories "Foo", "foo" and "Foo 2", or in none
ListingTitles == { <<"A">>, <<"C","a","t","e","g","o","r","y"," ","F","o","o">> }
ListingTexts ==
  { << <<Link(<<"C","a","t","e","g","o","r","y",":","F","o","o">>)>> >>,
    << <<Link(<<"C","a","t","e","g","o","r","y",":","f","o","o">>)>> >>,
    << <<Link(<<"C","a","t","e","g","o","r","y",":","F","o","o"," ","2">>)>> >>,
    << <<Txt(<<"x">>)>> >> }

SpecListings == InitBuild(ListingTitles, ListingTexts, {<<>>}, {FALSE}) /\ [][NextBuild]_vars

\* links resolved against the registries that the first loop of build_pages
\* leaves for up to MaxPages pages titled "a_b", "A b", "a b", "A_b"
RECURSIVE registry_of(_, _, _)
registry_of(titles, used, d) ==
  IF titles = <<>> THEN d
  ELSE registry_of(Tail(titles), slugify_used(Head(titles), used),
                   register(d, Head(titles), slugify(Head(titles), used)))

RegistryTitles == { <<"a","_","b">>, <<"A"," ","b">>, <<"a"," ","b">>, <<"A","_","b">> }
LinkRegistries == { registry_of(ts, {}, EmptyDict) : ts \in TextsOver(RegistryTitles, MaxPages) }
\* the page is one link
LinkSpans ==
  { <<"a","_","b">>, <<"a"," ","b">>, <<"A","_","b">>, <<"A"," ","b","#","S","e","c"," ","t">>, <<" ","a","_","b"," ","|","l","a","b","e","l">>, <<"Z","e","d","_","q","|","l","a","b">>, <<"z","e","d"," ","q","#","s">> }

InitLinks == InitConvertWith({ << <<Link(v)>> >> : v \in LinkSpans }, LinkRegistries)

SpecLinks == InitLinks /\ [][NextConvert]_vars

\* table runs and collapsible containers, closed or left open: "* a", "p",
\* "{|", "| x [[Category:Bar]]", "|}", the opening tag of a container,
\* "</div>", "[[Category:Foo]]"
ModeLines ==
  { <<T_star, T_sp, Txt(<<"a">>)>>,
    <<Txt(<<"p">>)>>,
    <<T_topen>>,
    <<T_bar, T_sp, Txt(<<"x">>), T_sp, Link(<<"C","a","t","e","g","o","r","y",":","B","a","r">>)>>,
    <<T_tclose>>,
    <<T_divc>>,
    <<T_divx>>,
    <<Link(<<"C","a","t","e","g","o","r","y",":","F","o","o">>)>> }

SpecModes == InitConvert(ModeLines) /\ [][NextConvert]_vars

(***************************************************************************)
(* Runs of mw_trim_revisions on dumps whose pages carry up to MaxRevisions *)
(* revisions: ids out of document order, repeated, absent and non-numeric. *)
(***************************************************************************)
MaxRevisions == 3

TrimRevisions ==
  { RevisionElem(<<"7">>, <<"2","0","2","3">>), RevisionElem(<<"5">>, <<"2","0","2","1">>), RevisionElem(<<"6">>, <<"2","0","2","2">>),
    RevisionElem(<<"7">>, <<"2","0","2","1">>), RevisionElem(<<>>, <<"2","0","2","1">>), RevisionElem(<<>>, <<"2","0","2","2">>),
    RevisionElem(<<"x">>, <<"2","0","2","1">>) }

TrimPages == TextsOver(TrimRevisions, MaxRevisions)

\* dumps of no page, of one page, and of two pages of two numbered revisions
TrimDumps ==
  {<<>>} \cup {<<p>> : p \in TrimPages}
    \cup {<<p, q>> : p, q \in {r \in TrimPages : Len(r) = 2 /\ \A k \in 1..2 : IsDigits(r[k].id)}}

TrimArgs ==
  [keep : {<<"0">>, <<"1">>, <<"2">>, <<"x">>}, sort_by : {"none", "timestamp", "id"},
   force_stdlib : BOOLEAN]

InitTrim ==
  /\ titles_in = {} /\ texts_in = {} /\ olds_in = {} /\ BuildIdle /\ ConvertIdle
  /\ mode = "html" /\ page_slugs = EmptyDict
  /\ argv \in TrimArgs
  /\ have_lxml \in BOOLEAN
  /\ input_readable \in BOOLEAN
  /\ dump_in \in TrimDumps
  /\ has_siteinfo \in BOOLEAN
  /\ lxml_refuses \in (IF have_lxml THEN BOOLEAN ELSE {FALSE})
  /\ out = <<>>
  /\ trim_pc = "args" /\ root = <<>> /\ pages_processed = 0 /\ args_keep = 0
  /\ use_streaming = FALSE /\ exit_code = -1

SpecTrim == InitTrim /\ [][NextTrim]_vars

\* headings: "== a ==", "==a=", "=a==", seven markers on both sides, "==",
\* "= a", and a list item
Equals(n) == [k \in 1..n |-> T_eq]
HeadingLines ==
  { Equals(2) \o <<T_sp, Txt(<<"a">>), T_sp>> \o Equals(2),
    Equals(2) \o <<Txt(<<"a">>)>> \o Equals(1),
    Equals(1) \o <<Txt(<<"a">>)>> \o Equals(2),
    Equals(7) \o <<T_sp, Txt(<<"a">>), T_sp>> \o Equals(7),
    Equals(2),
    Equals(1) \o <<T_sp, Txt(<<"a">>)>>,
    <<T_star, T_sp, Txt(<<"a">>)>> }

SpecHeadings == InitConvert(HeadingLines) /\ [][NextConvert]_vars

\* containers: the opening tag alone, a container on one line, "x</DIV>",
\* "</div>", a paragraph and a list item
CollapseLines ==
  { <<T_divc>>,
    <<T_divc, Txt(<<"x">>), T_divx>>,
    <<Txt(<<"x">>), T_DIVX>>,
    <<T_divx>>,
    <<Txt(<<"p">>)>>,
    <<T_star, T_sp, Txt(<<"a">>)>> }

SpecCollapse == InitConvert(CollapseLines) /\ [][NextConvert]_vars

\* blocks around lists: a list item, a container in two lines, a paragraph, an
\* empty line, a heading and an empty table
BlockLines ==
  { <<T_star, T_sp, Txt(<<"a">>)>>,
    <<T_divc>>,
    <<Txt(<<"x">>), T_divx>>,
    <<Txt(<<"p">>)>>,
    <<>>,
    Equals(2) \o <<Txt(<<"h">>)>> \o Equals(2),
    <<T_topen>>,
    <<T_tclose>> }

SpecBlocks == InitConvert(BlockLines) /\ [][NextConvert]_vars

\* category links on a normal line (twice), in a table caption, in a table
\* cell, in a cell behind a sort key, and on a line of a container
RecordLines ==
  { <<Link(<<"C","a","t","e","g","o","r","y",":","F","o","o">>), T_sp, Txt(<<"x">>), T_sp, Link(<<"C","a","t","e","g","o","r","y",":","F","o","o">>)>>,
    <<T_topen>>,
    <<T_tcap, T_sp, Txt(<<"c","a","p">>), T_sp, Link(<<"C","a","t","e","g","o","r","y",":","C","a","p">>)>>,
    <<T_bar, T_sp, Txt(<<"c">>), T_sp, Link(<<"C","a","t","e","g","o","r","y",":","C","e","l","l">>)>>,
    <<T_bar, T_sp, Link(<<"C","a","t","e","g","o","r","y",":","K","e","y","|","k">>), T_sp, Txt(<<"c">>)>>,
    <<T_tclose>>,
    <<T_divc>>,
    <<Link(<<"C","a","t","e","g","o","r","y",":","B","o","x">>)>>,
    <<T_divx>> }

SpecRecord == InitConvert(RecordLines) /\ [][NextConvert]_vars

\* generic tables: a row of three header cells, a row of three data cells, a
\* row of one data cell and the row separator, up to MaxTableLines lines
HeaderRowLines ==
  { <<T_bang, T_sp, Txt(<<"h">>), T_sp, T_dbang, T_sp, Txt(<<"i">>), T_sp, T_dbang, T_sp, Txt(<<"j">>)>>,
    <<T_bar, T_sp, Txt(<<"a">>), T_sp, T_dbar, T_sp, Txt(<<"b">>), T_sp, T_dbar, T_sp, Txt(<<"c">>)>>,
    <<T_bar, T_sp, Txt(<<"d">>)>>,
    <<T_trow>> }
HeaderRowTexts ==
  {<<<<T_topen>>>> \o inner \o <<<<T_tclose>>>> : inner \in TextsOver(HeaderRowLines, MaxTableLines)}

SpecHeaderRows == InitConvertOn(HeaderRowTexts) /\ [][NextConvert]_vars

(***************************************************************************)
(* Texts with templates nested up to MaxNesting deep, on one line, over    *)
(* two lines, and beside a second template.                                *)
(***************************************************************************)
MaxNesting == 12

\* "{{t{{t...}}}}", d levels deep
RECURSIVE Nested(_)
Nested(d) == IF d = 0 THEN <<>> ELSE <<T_lbr, Txt(<<"t">>)>> \o Nested(d - 1) \o <<T_rbr>>

\* the first d levels of it, up to the line break inside, and the rest
RECURSIVE NestedOpen(_)
NestedOpen(d) == IF d = 0 THEN <<>> ELSE <<T_lbr, Txt(<<"t">>)>> \o NestedOpen(d - 1)
NestedClose(d) == [k \in 1..d |-> T_rbr]

TemplateTexts ==
  UNION { { << <<Txt(<<"a">>)>> \o Nested(d) \o <<Txt(<<"b">>)>> >>,
            << <<Txt(<<"a">>)>> \o NestedOpen(d), NestedClose(d) \o <<Txt(<<"b">>)>> >>,
            << <<Txt(<<"a">>)>> \o Nested(d) \o <<Txt(<<"b">>)>> \o Nested(1), <<Txt(<<"c">>)>> >> } :
          d \in 0..MaxNesting }

SpecTemplates == InitConvertOn(TemplateTexts) /\ [][NextConvert]_vars

\* pages titled "Index", "INDEX" and "A", in the category "Foo" or in none
IndexTitles == { <<"I","n","d","e","x">>, <<"I","N","D","E","X">>, <<"A">> }
IndexTexts == { << <<Txt(<<"x">>)>> >>, << <<Link(<<"C","a","t","e","g","o","r","y",":","F","o","o">>)>> >> }

SpecIndex == InitBuild(IndexTitles, IndexTexts, {<<>>}, {FALSE}) /\ [][NextBuild]_vars

\* pages "A" and "Category Foo" (whose slug is that of the category "Foo"), in
\* the category "Foo" or in none, one text with a category link that a
\* collapsible container keeps as an inline link
CategoryLinkTexts ==
  { << <<Link(<<"C","a","t","e","g","o","r","y",":","F","o","o">>)>> >>,
    << <<T_divc>>, <<Link(<<"C","a","t","e","g","o","r","y",":","F","o","o">>)>>, <<T_divx>>, <<Link(<<"C","a","t","e","g","o","r","y",":","F","o","o">>)>> >>,
    << <<Txt(<<"x">>)>> >> }

SpecCategoryLinks ==
  InitBuild(ListingTitles, CategoryLinkTexts, {<<>>}, {FALSE}) /\ [][NextBuild]_vars

(***************************************************************************)
(* Claims about the slug-assignment pass.                                  *)
(***************************************************************************)
LastPage(objs) == objs[Len(objs)]

\* the step registers one more page
Registers == Len(page_objects') = Len(page_objects) + 1

\* the lookup keys build_pages binds for a title
RegistryKeys(title) ==
  { title, normalize_title(title), ReplaceChar(title, " ", "_"),
    ReplaceChar(normalize_title(title), " ", "_") }

\* C1: every slugify call on the shared used set returns the base slug when
\* it is free and otherwise base-i for the smallest i >= 2 that is free; the
\* returned slug is added to the used set, nothing is removed from it, and
\* the slugs returned so far are pairwise distinct (the first call, on a
\* fresh set, returns the base slug of its title).
C1_SlugifyContract ==
  [][ /\ used_slugs \subseteq used_slugs'
      /\ Registers =>
           LET p == LastPage(page_objects')
               base == SlugBase(p.title)
           IN  /\ base \notin used_slugs => p.slug = base
               /\ base \in used_slugs =>
                    \E i \in 2..(Cardinality(used_slugs) + 2) :
                       /\ p.slug = Suffixed(base, i)
                       /\ p.slug \notin used_slugs
                       /\ \A j \in 2..(i - 1) : Suffixed(base, j) \in used_slugs
               /\ used_slugs' = used_slugs \cup {p.slug}
               /\ \A a, b \in DOMAIN page_objects' :
                    a # b => page_objects'[a].slug # page_objects'[b].slug
    ]_vars

\* a call had to skip base and base-2 and returned base-3
C1_Witness ==
  \E k \in DOMAIN page_objects :
     page_objects[k].slug = Suffixed(SlugBase(page_objects[k].title), 3)

\* C2 as stated: once a key maps to a slug, no later registration changes
\* the slug the key maps to.
C2_KeyNeverRebound ==
  [][ \A k \in DOMAIN page_slugs :
        k \in DOMAIN page_slugs' /\ page_slugs'[k] = page_slugs[k] ]_vars

\* C2 amended: a key stays in the registry, and a registration changes the
\* slug of an existing key only when the key is the raw title of the page
\* being registered, which is then bound to that page's slug; the variant
\* keys of the page are bound only when they are new.
C2_KeyReboundOnlyByRawTitle ==
  [][ /\ \A k \in DOMAIN page_slugs :
           /\ k \in DOMAIN page_slugs'
           /\ page_slugs'[k] # page_slugs[k] =>
                /\ Registers
                /\ k = LastPage(page_objects').title
      /\ Registers =>
           LET p == LastPage(page_objects') IN
             /\ RegistryKeys(p.title) \subseteq DOMAIN page_slugs'
             /\ DOMAIN page_slugs' = DOMAIN page_slugs \cup RegistryKeys(p.title)
             /\ page_slugs'[p.title] = p.slug
             /\ \A k \in RegistryKeys(p.title) \ DOMAIN page_slugs :
                  page_slugs'[k] = p.slug
    ]_vars

\* a variant key of the last registered page kept the slug of an earlier page
C2_Witness ==
  /\ page_objects # <<>>
  /\ \E k \in RegistryKeys(LastPage(page_objects).title) :
       /\ k # LastPage(page_objects).title
       /\ page_slugs[k] # LastPage(page_objects).slug

(***************************************************************************)
(* Lists.                                                                  *)
(***************************************************************************)
\* the list "* a", "** b", "* c"
ExampleList ==
  << <<T_star, T_sp, Txt(<<"a">>)>>,
     <<T_star, T_star, T_sp, Txt(<<"b">>)>>,
     <<T_star, T_sp, Txt(<<"c">>)>> >>

IsItem(block, label) == block.b = "li" /\ block.body = <<OText(label)>>
CountOf(blocks, from, to, b) == Cardinality({k \in from..to : blocks[k].b = b})
\* the nesting depth after the first k blocks
DepthAt(blocks, k) == CountOf(blocks, 1, k, "open") - CountOf(blocks, 1, k, "close")
ClosesBetween(blocks, i, j) == CountOf(blocks, i + 1, j - 1, "close")
ItemAt(blocks, label) == CHOOSE k \in DOMAIN blocks : IsItem(blocks[k], label)
HasItem(blocks, label) == \E k \in DOMAIN blocks : IsItem(blocks[k], label)
ExampleDone == text = ExampleList /\ cv_pc = "returned"

\* C7 as stated: for the list "* a", "** b", "* c", depth 2 is opened, item c
\* is back at depth 1, and two list-close events lie between item b and item c
C7_TwoClosesBetween ==
  ExampleDone =>
    /\ DepthAt(result.html, ItemAt(result.html, <<"b">>)) = 2
    /\ DepthAt(result.html, ItemAt(result.html, <<"c">>)) = 1
    /\ ClosesBetween(result.html, ItemAt(result.html, <<"b">>), ItemAt(result.html, <<"c">>)) = 2

\* C7, amended: for the list "* a", "** b", "* c", depth 2 is opened for item
\* b, exactly one list-close event lies between item b and item c, which is
\* back at depth 1, and the second close, from depth 1 to 0, comes after item
\* c; while the loop runs the depth of the emitted blocks is the length of
\* list_stack
C7_OneCloseBetween ==
  /\ cv_pc = "lines" => DepthAt(html_lines, Len(html_lines)) = Len(list_stack)
  /\ ExampleDone =>
       LET h == result.html
           b == ItemAt(h, <<"b">>)
           c == ItemAt(h, <<"c">>)
       IN  /\ HasItem(h, <<"a">>) /\ HasItem(h, <<"b">>) /\ HasItem(h, <<"c">>)
           /\ ItemAt(h, <<"a">>) < b /\ b < c
           /\ DepthAt(h, ItemAt(h, <<"a">>)) = 1
           /\ DepthAt(h, b) = 2
           /\ ClosesBetween(h, b, c) = 1
           /\ DepthAt(h, c) = 1
           /\ CountOf(h, c + 1, Len(h), "close") = 1
           /\ DepthAt(h, Len(h)) = 0

\* the list has been converted, with one close between item b and item c
C7_Witness ==
  /\ ExampleDone
  /\ HasItem(result.html, <<"b">>) /\ HasItem(result.html, <<"c">>)
  /\ ClosesBetween(result.html, ItemAt(result.html, <<"b">>), ItemAt(result.html, <<"c">>)) = 1

(***************************************************************************)
(* Redirect pages.                                                         *)
(***************************************************************************)
\* the text starts with a redirect directive
StartsWithDirective == text # <<>> /\ text[1] \in RedirectLines
\* the target the directive of the text names
DirectiveTarget == Strip(text[1][Len(text[1])].v)

\* C6: a text that starts with a redirect directive converts to exactly one
\* block, the redirect notice for the target of the directive, and to no
\* category, whatever follows the directive; the line loop never runs
C6_RedirectOnly ==
  (StartsWithDirective /\ cv_pc # "start") =>
    /\ cv_pc = "returned"
    /\ Len(result.html) = 1
    /\ result.html[1].b = "redirect"
    /\ result.html[1].body = <<link_for_target(DirectiveTarget, DirectiveTarget, page_slugs)>>
    /\ result.categories = <<>>
    /\ lines = <<>> /\ line_no = 0
    /\ html_lines = <<>> /\ categories = <<>> /\ cat_set = {}
    /\ list_stack = <<>> /\ ~in_table /\ ~in_collapse

\* a redirect followed by a category link, a list item and a table has
\* been converted
C6_Witness ==
  /\ StartsWithDirective /\ cv_pc = "returned"
  /\ Len(text) >= 3
  /\ \E l \in 2..Len(text) : text[l] = <<Link(<<"C","a","t","e","g","o","r","y",":","F","o","o">>)>>
  /\ \E l \in 2..Len(text) : text[l] \in {<<T_star, T_sp, Txt(<<"a">>)>>, <<T_topen>>}
  /\ Len(result.html) = 1 /\ result.categories = <<>>

(***************************************************************************)
(* The layout of tables.                                                   *)
(***************************************************************************)
\* the row list of the table the text is
R == parse_table(text, <<>>, {}).rows
Cells(row) == Len(row)
MaxCellCount == IF R = <<>> THEN 0 ELSE CHOOSE n \in {Cells(R[k]) : k \in DOMAIN R} : \A k \in DOMAIN R : Cells(R[k]) <= n
RowsOfTwo == Cardinality({k \in DOMAIN R : Cells(R[k]) = 2})
RowsOfThree == Cardinality({k \in DOMAIN R : Cells(R[k]) = 3})
\* 60% of n, rounded up
SixtyPercentUp(n) == (6 * n + 9) \div 10
\* 60% of n, rounded down
SixtyPercentDown(n) == (6 * n) \div 10
AtLeastOne(n) == IF n < 1 THEN 1 ELSE n

\* the table has been converted; what it was classified as
TableDone == cv_pc = "returned" /\ ~in_table
KeyValueLayout == \E n \in DOMAIN result.html : result.html[n].b \in {"table", "md"} /\ result.html[n].kv
GenericLayout == ~KeyValueLayout

\* C8 as stated: a table is classified key-value exactly when its largest row
\* has 2 cells and the rows of 2 cells are at least max(1, ceil(0.6 * |R|))
C8_KeyValueIffSixtyPercentUp ==
  TableDone =>
    (KeyValueLayout <=> (MaxCellCount = 2 /\ RowsOfTwo >= AtLeastOne(SixtyPercentUp(Len(R)))))

\* C8, as the code has it: the threshold is 60% of the rows rounded down
\* (int truncates), with a minimum of 1
C8_KeyValueIffSixtyPercentDown ==
  TableDone =>
    (KeyValueLayout <=> (MaxCellCount = 2 /\ RowsOfTwo >= AtLeastOne(SixtyPercentDown(Len(R)))))

\* three rows, one of them of 2 cells and two of 1 cell, have been classified key-value
C8_Divergence ==
  /\ TableDone /\ Len(R) = 3 /\ MaxCellCount = 2 /\ RowsOfTwo = 1
  /\ KeyValueLayout

ThreeRows == Len(R) = 3 /\ \A k \in DOMAIN R : Cells(R[k]) \in {2, 3}

\* C9 as stated: of the tables of three rows, the one with 2 cells in every
\* row is key-value, the one with 3 cells in one row is still key-value, the
\* one with 3 cells in two rows is generic
C9_OneWideRowStillKeyValue ==
  (TableDone /\ ThreeRows) =>
    /\ RowsOfThree = 0 => KeyValueLayout
    /\ RowsOfThree = 1 => KeyValueLayout
    /\ RowsOfThree = 2 => GenericLayout

\* C9, amended: of the tables of three rows, the one with 2 cells in every
\* row is key-value; with 3 cells in one row the largest row has 3 cells and
\* the table is generic, and so it is with 3 cells in two rows
C9_AnyWideRowGeneric ==
  (TableDone /\ ThreeRows) =>
    /\ RowsOfThree = 0 => KeyValueLayout
    /\ RowsOfThree = 1 => GenericLayout
    /\ RowsOfThree = 2 => GenericLayout

\* a table of three rows, two of 2 cells and one of 3, has been classified generic
C9_Witness ==
  /\ TableDone /\ ThreeRows /\ RowsOfThree = 1 /\ RowsOfTwo = 2
  /\ GenericLayout
  /\ \E n \in DOMAIN result.html : result.html[n].b \in {"table", "md"}

(***************************************************************************)
(* File embeds.                                                            *)
(***************************************************************************)
\* the embed the text is, its file name and its options
EmbedInside == text[1][1].v
EmbedName == DropFirst(SplitOn(EmbedInside, "|")[1], 5)
EmbedOptions == Tail(SplitOn(EmbedInside, "|"))
IsLinkOption(o) == StartsWith(o, <<"l","i","n","k","=">>)
\* the link target: that of the last link option
EmbedLink ==
  IF \E n \in DOMAIN EmbedOptions : IsLinkOption(EmbedOptions[n])
    THEN DropFirst(EmbedOptions[CHOOSE n \in DOMAIN EmbedOptions :
                                  /\ IsLinkOption(EmbedOptions[n])
                                  /\ \A m \in DOMAIN EmbedOptions : IsLinkOption(EmbedOptions[m]) => m <= n], 5)
  ELSE <<>>
HasYouTubeLink == EmbedLink = <<"h","t","t","p","s",":","/","/","y","o","u","t","u",".","b","e","/","x","y","z">>
HasCaptionToken == \E n \in DOMAIN EmbedOptions : EmbedOptions[n] \in CaptionOptions
NameHasYouTube == EmbedName \in { <<"Y","o","u","T","u","b","e",".","p","n","g">>, <<"m","y","_","y","o","u","t","u","b","e","_","i","c","o","n",".","s","v","g">> }

EmbedDone == cv_pc = "returned"
\* what the embed was rendered as
Rendered == result.html[1].body[1]
PlainYouTubeLink ==
  /\ Rendered.t = "a" /\ Rendered.label = <<"Y","o","u","T","u","b","e">>
  /\ Rendered.href = <<"h","t","t","p","s",":","/","/","y","o","u","t","u",".","b","e","/","x","y","z">>
\* a figure that holds an image
ImageFigure == Rendered.t \in {"figure", "mdimg"} /\ Rendered.w > 0 /\ Rendered.h > 0
FigureWithCaption == ImageFigure /\ Rendered.cap = <<"A"," ","c","a","p","t","i","o","n">>

\* C10 as stated: an embed with a YouTube link target and no caption token is a
\* plain "YouTube" link and no figure; with a caption token it is a figure
\* with an image and the caption
C10_YouTubeLinkWhateverFile ==
  (EmbedDone /\ HasYouTubeLink) =>
    /\ ~HasCaptionToken => (PlainYouTubeLink /\ ~ImageFigure)
    /\ HasCaptionToken => FigureWithCaption

\* C10, amended: an embed with a YouTube link target and no caption token is a
\* plain "YouTube" link and no figure when its file name contains "youtube"
\* (in any case), and a figure with an image when it does not (Video.ogg);
\* with a caption token it is a figure with an image and the caption
C10_YouTubeLinkForYouTubeFile ==
  (EmbedDone /\ HasYouTubeLink) =>
    /\ (~HasCaptionToken /\ NameHasYouTube) => (PlainYouTubeLink /\ ~ImageFigure)
    /\ (~HasCaptionToken /\ ~NameHasYouTube) => (ImageFigure /\ Rendered.cap = <<>>)
    /\ HasCaptionToken => FigureWithCaption

\* [[File:YouTube.png|thumb|link=https://youtu.be/xyz]] has become a plain link
C10_Witness ==
  /\ EmbedDone
  /\ EmbedInside = <<"F","i","l","e",":","Y","o","u","T","u","b","e",".","p","n","g","|","t","h","u","m","b","|","l","i","n","k","=","h","t","t","p","s",":","/","/","y","o","u","t","u",".","b","e","/","x","y","z">>
  /\ PlainYouTubeLink

(***************************************************************************)
(* The two loops of build_pages.                                           *)
(***************************************************************************)
Pages == DOMAIN page_objects
\* the blocks written for the page k
PageOut(k) == written[page_file(page_objects[k], mode)].body

RECURSIVE AllPieces(_)
AllPieces(blocks) == IF blocks = <<>> THEN <<>> ELSE Head(blocks).body \o AllPieces(Tail(blocks))

\* the anchors of the page k that are labelled with the title
AnchorsTo(k, title) ==
  {n \in DOMAIN AllPieces(PageOut(k)) :
     AllPieces(PageOut(k))[n].t = "a" /\ AllPieces(PageOut(k))[n].label = escape(title)}

\* the text of the page k holds the link [[title]]
LinksIn(k, title) ==
  \E l \in DOMAIN page_objects[k].text :
    \E n \in DOMAIN page_objects[k].text[l] : page_objects[k].text[l][n] = Link(title)

\* every anchor of the page i labelled with the title is a normal link to the slug
ResolvesTo(i, title, slug) ==
  /\ AnchorsTo(i, title) # {}
  /\ \A n \in AnchorsTo(i, title) :
       /\ AllPieces(PageOut(i))[n].cls = <<>>
       /\ AllPieces(PageOut(i))[n].href = escape(slug \o DotHtml)

\* the last page of the dump with this title
LastTitled(title) ==
  CHOOSE k \in Pages :
    /\ page_objects[k].title = title
    /\ \A j \in Pages : page_objects[j].title = title => j <= k

\* no conversion happens while pages are still registered, and when one
\* happens every page has its slug and its raw title is a key of the registry
RegistrationFirst ==
  /\ pc = "register" => converted = 0 /\ written = EmptyDict /\ category_map = EmptyDict
  /\ pc # "register" =>
       \A k \in Pages :
         /\ page_objects[k].slug \in used_slugs
         /\ page_objects[k].title \in DOMAIN page_slugs

\* C3 as stated: registration of every page comes before any conversion, and a
\* link on page i to the title of a later page j resolves to page j's slug as
\* a normal link
C3_ForwardLinkToPageJ ==
  /\ RegistrationFirst
  /\ \A i \in 1..converted : \A j \in Pages :
       (i < j /\ LinksIn(i, page_objects[j].title)) =>
         ResolvesTo(i, page_objects[j].title, page_objects[j].slug)

\* C3, amended: registration of every page comes before any conversion, and a
\* link on page i to the title of a later page j resolves as a normal link to
\* the slug the registry holds for that title, which is the slug of the last
\* page of the dump with that title (page j's own unless a later page repeats
\* the title)
C3_ForwardLinkToLastTitled ==
  /\ RegistrationFirst
  /\ \A i \in 1..converted : \A j \in Pages :
       (i < j /\ LinksIn(i, page_objects[j].title)) =>
         /\ page_slugs[page_objects[j].title] = page_objects[LastTitled(page_objects[j].title)].slug
         /\ ResolvesTo(i, page_objects[j].title, page_slugs[page_objects[j].title])

\* a converted page links forward to a page that is still to be converted,
\* and the link is a normal link to that page's slug
C3_Witness ==
  \E i \in 1..converted : \E j \in Pages :
    /\ i < j /\ converted < j
    /\ page_objects[j].title # page_objects[i].title
    /\ LinksIn(i, page_objects[j].title)
    /\ ResolvesTo(i, page_objects[j].title, page_objects[j].slug)

\* the registry the first loop leaves for these pages
RECURSIVE RegistryFrom(_, _, _)
RegistryFrom(d, pages, k) ==
  IF k > Len(pages) THEN d
  ELSE RegistryFrom(register(d, pages[k].title, pages[k].slug), pages, k + 1)
RegistryOf(pages) == RegistryFrom(EmptyDict, pages, 1)

\* what the page k converts to when only the first loop has run
AloneResult(k) == convert(page_objects[k].text, mode, RegistryOf(page_objects))

\* category_map as the loop builds it page after page in the order of the dump
RECURSIVE InOrderMap(_, _)
InOrderMap(cm, k) ==
  IF k > Len(page_objects) THEN cm
  ELSE InOrderMap(add_categories(cm, AloneResult(k).categories, k), k + 1)

PageDone(k) == page_file(page_objects[k], mode) \in DOMAIN written
RevisionDone(k, n) ==
  revision_file(page_objects[k], page_objects[k].older[n], mode) \in DOMAIN written

C4_ReadOnlyRegistry == pc # "register" => page_slugs' = page_slugs

C4_SameResults ==
  /\ \A k \in Pages :
       /\ PageDone(k) =>
            /\ PageOut(k) = AloneResult(k).html
            /\ page_objects[k].categories = AloneResult(k).categories
       /\ \A n \in DOMAIN older_revisions(page_objects[k], dump_old_revisions) :
            RevisionDone(k, n) =>
              written[revision_file(page_objects[k], page_objects[k].older[n], mode)].body
                = convert(page_objects[k].older[n].text, mode, RegistryOf(page_objects)).html
  /\ pc = "categories" => category_map = InOrderMap(EmptyDict, 1)

RECURSIVE CatNames(_)
CatNames(toks) ==
  IF toks = <<>> THEN <<>>
  ELSE (IF IsCategoryLink(Head(toks)) THEN <<CategoryName(Head(toks))>> ELSE <<>>)
         \o CatNames(Tail(toks))

\* a sequence without the repeats of its elements
RECURSIVE FirstOnes(_, _)
FirstOnes(names, seen) ==
  IF names = <<>> THEN <<>>
  ELSE IF Head(names) \in seen THEN FirstOnes(Tail(names), seen)
  ELSE <<Head(names)>> \o FirstOnes(Tail(names), seen \cup {Head(names)})

Count(x, seq) == Cardinality({n \in DOMAIN seq : seq[n] = x})

\* every category link of a text
AllRefs(body) == CatNames(JoinLines(body))

\* what is left in the cells of a table cell line once attribute prefixes are cut
RECURSIVE CellContents(_)
CellContents(parts) ==
  IF parts = <<>> THEN <<>>
  ELSE (IF StripToks(Head(parts)) # <<>> /\ AttrMatches(StripToks(Head(parts)))
          THEN AttrRest(StripToks(Head(parts)))
        ELSE StripToks(Head(parts)))
         \o CellContents(Tail(parts))

\* the category links the category-strip pass meets: those of normal lines
\* and those of the cells of closed tables; `held` are those of the table
\* that is open
RECURSIVE SeenFrom(_, _, _)
SeenFrom(ls, where, held) ==
  IF ls = <<>> THEN <<>>
  ELSE LET l == Head(ls)
           core == StripToks(l)
       IN  IF where = "normal"
             THEN IF LStripToks(l) # <<>> /\ LStripToks(l)[1].t = "topen"
                    THEN SeenFrom(Tail(ls), "table", <<>>)
                  ELSE IF HasTok(l, "divc") THEN SeenFrom(Tail(ls), "collapse", <<>>)
                  ELSE CatNames(l) \o SeenFrom(Tail(ls), "normal", <<>>)
           ELSE IF where = "table"
             THEN IF core # <<>> /\ core[1].t = "tclose"
                    THEN held \o SeenFrom(Tail(ls), "normal", <<>>)
                  ELSE IF core # <<>> /\ StartsCell(core)
                    THEN SeenFrom(Tail(ls), "table",
                                  held \o CatNames(CellContents(cell_parts(CellLine(core), CellIsHeader(core)))))
                  ELSE SeenFrom(Tail(ls), "table", held)
           ELSE IF HasTok(l, "divx") THEN SeenFrom(Tail(ls), "normal", <<>>)
           ELSE SeenFrom(Tail(ls), "collapse", <<>>)

IsRedirectPage(body) ==
  body # <<>> /\ Len(body[1]) >= 2 /\ body[1][1].t = "redir" /\ body[1][Len(body[1])].t = "link"

SeenRefs(body) == IF IsRedirectPage(body) THEN <<>> ELSE SeenFrom(body, "normal", <<>>)

\* the page k is once in the member list of each of its categories and in no other
MemberOnce(k) ==
  /\ \A c \in Range(page_objects[k].categories) :
       c \in DOMAIN category_map /\ Count(k, category_map[c]) = 1
  /\ \A c \in DOMAIN category_map :
       c \notin Range(page_objects[k].categories) => Count(k, category_map[c]) = 0

Listed == DOMAIN category_map
ListingFile(c) == category_file(c, used_slugs, mode)
\* the file is the listing of the category c
IsListingOf(f, c) ==
  /\ f.kind = "category"
  /\ f.body[1].body[1].label = <<"C","a","t","e","g","o","r","y",":"," ">> \o (IF mode = "html" THEN escape(c) ELSE c)
PageFiles == {page_file(page_objects[k], mode) : k \in Pages}
ListingsDone == pc = "index"

\* C13 as stated: after the build every category has its listing under a file
\* name that no page document has and no other category has, and no document
\* has been overwritten
C13_ListingsAllDistinct ==
  ListingsDone =>
    /\ \A c \in Listed :
         /\ ListingFile(c) \notin PageFiles
         /\ ListingFile(c) \in DOMAIN written
         /\ IsListingOf(written[ListingFile(c)], c)
    /\ \A c1 \in Listed : \A c2 \in Listed : c1 # c2 => ListingFile(c1) # ListingFile(c2)
    /\ \A k \in Pages : written[page_file(page_objects[k], mode)].kind = "page"

\* C13 for the page documents: no listing is written under the file name of a
\* page, and the pages keep their documents
C13_ListingNeverAPageFile ==
  /\ \A c \in Listed : ListingFile(c) \notin PageFiles
  /\ \A k \in Pages :
       page_file(page_objects[k], mode) \in DOMAIN written =>
         /\ written[page_file(page_objects[k], mode)].kind = "page"
         /\ written[page_file(page_objects[k], mode)].page = k
  /\ ListingsDone =>
       \A c \in Listed : ListingFile(c) \in DOMAIN written /\ written[ListingFile(c)].kind = "category"

\* the categories "Foo" and "foo" share the file category-foo: the listing of
\* "Foo" has been overwritten by that of "foo"
C13_Divergence ==
  /\ ListingsDone
  /\ {<<"F","o","o">>, <<"f","o","o">>} \subseteq Listed
  /\ ListingFile(<<"F","o","o">>) = ListingFile(<<"f","o","o">>)
  /\ ListingFile(<<"F","o","o">>) = <<"c","a","t","e","g","o","r","y","-","f","o","o">> \o Ext(mode)
  /\ ~IsListingOf(written[ListingFile(<<"F","o","o">>)], <<"F","o","o">>)

(***************************************************************************)
(* Emphasis.                                                               *)
(***************************************************************************)
\* the line "'''text": one bold delimiter and text, nothing that closes it
UnterminatedBold == <<T_apos, T_apos, T_apos, Txt(<<"t","e","x","t">>)>>
\* the characters of the line, as pieces
LiteralBold == <<Apostrophe, Apostrophe, Apostrophe, OText(<<"t","e","x","t">>)>>

IsEmphasis(p) == p.t \in {"strongem", "strong", "em"}
\* the line the loop has just processed
LastLine == lines[line_no - 1]
LastBlock == html_lines[Len(html_lines)]

\* C11: a page whose text is the unterminated bold marker "'''text" converts
\* to one paragraph that holds the three apostrophes and the text unchanged
\* and no strong/em element, in both modes; and wherever such a line stands in
\* a page its paragraph holds the unchanged characters and no emphasis
C11_UnterminatedBoldLiteral ==
  /\ (cv_pc = "returned" /\ text = <<UnterminatedBold>>) =>
        /\ result.html = <<Block("p", "", 0, LiteralBold)>>
        /\ result.categories = <<>>
  /\ (cv_pc = "lines" /\ line_no > 1 /\ LastLine = UnterminatedBold) =>
        /\ html_lines # <<>>
        /\ LastBlock.b = "p"
        /\ LastBlock.body = LiteralBold
        /\ \A k \in DOMAIN LastBlock.body : ~IsEmphasis(LastBlock.body[k])

\* the page "'''text" has been converted to its one literal paragraph
C11_Witness ==
  /\ cv_pc = "returned" /\ text = <<UnterminatedBold>>
  /\ Len(result.html) = 1 /\ result.html[1].body = LiteralBold

(***************************************************************************)
(* The size of the placeholder image.                                      *)
(***************************************************************************)
\* the pieces of the blocks that hold an image
ImagePieces(blocks) ==
  {p \in Range(AllPieces(blocks)) : p.t \in {"figure", "mdimg"}}
SidesClamped(p) ==
  /\ MinSide <= p.w /\ p.w <= MaxWidth
  /\ MinSide <= p.h /\ p.h <= MaxHeight

\* C12 as stated: whatever the options of a file embed are, the conversion
\* goes through and the width of the placeholder image is in 40..1600 and its
\* height in 40..1200
C12_SizeAlwaysClamped ==
  /\ cv_pc # "raised"
  /\ \A p \in ImagePieces(html_lines) \cup ImagePieces(result.html) : SidesClamped(p)
  /\ cv_pc = "returned" => ImagePieces(result.html) # {}

\* C12 for the conversions that return: the sides are clamped
C12_ClampedWhenReturned ==
  /\ \A p \in ImagePieces(html_lines) \cup ImagePieces(result.html) : SidesClamped(p)
  /\ cv_pc = "returned" => ImagePieces(result.html) # {}

\* the embed [[File:Map.png|999...9px]] with a width of 310 digits and no
\* height: OverflowError leaves convert, no image is made
C12_Divergence ==
  /\ text = << <<Embed(<<"M","a","p",".","p","n","g">>, <<Nines(310) \o <<"p","x">>>>)>> >>
  /\ cv_pc = "raised"
  /\ html_lines = <<>> /\ result.html = <<>>

(***************************************************************************)
(* Link resolution.                                                        *)
(***************************************************************************)
\* the link the page is: its target without the fragment, the fragment, the
\* label it shows
SpanTarget == Strip(LinkTargetRaw(text[1][1].v))
SpanBase == IF FirstPos("#", SpanTarget) = 0 THEN SpanTarget
            ELSE SubSeq(SpanTarget, 1, FirstPos("#", SpanTarget) - 1)
SpanFragment == IF FirstPos("#", SpanTarget) = 0 THEN <<>>
                ELSE <<"#">> \o heading_id(DropFirst(SpanTarget, FirstPos("#", SpanTarget)))
SpanLabel == IF LinkLabelRaw(text[1][1].v) = <<>> THEN SpanTarget ELSE Strip(LinkLabelRaw(text[1][1].v))
\* the four lookup keys in their order
LookupKeys ==
  << SpanBase, normalize_title(SpanBase), ReplaceChar(SpanBase, "_", " "),
     ReplaceChar(normalize_title(SpanBase), " ", "_") >>
PresentKeys == {i \in 1..4 : LookupKeys[i] \in DOMAIN page_slugs}
FirstPresentKey == LookupKeys[CHOOSE i \in PresentKeys : \A j \in PresentKeys : i <= j]
LinkPiece == result.html[1].body[1]

\* C14: the keys are tried in the order raw target, normalized target, target
\* with spaces for underscores, normalized target with underscores for spaces
\* (the target taken without its fragment); when one is in the registry the
\* link is a normal link to the slug of the first such key, and when none is
\* it is a link of class "missing" to the slug slugify would derive from the
\* target; the anchor of the fragment follows the file name
C14_FirstKeyPresentWins ==
  cv_pc = "returned" =>
    /\ Len(result.html) = 1 /\ Len(result.html[1].body) = 1
    /\ LinkPiece.t = "a"
    /\ LinkPiece.label = escape(SpanLabel)
    /\ (LinkPiece.cls = <<>>) <=> (PresentKeys # {})
    /\ PresentKeys # {} =>
         LinkPiece.href = escape(page_slugs[FirstPresentKey] \o DotHtml \o SpanFragment)
    /\ PresentKeys = {} =>
         /\ LinkPiece.cls = <<"m","i","s","s","i","n","g">>
         /\ LinkPiece.href = escape(SlugBase(SpanBase) \o DotHtml \o SpanFragment)

\* [[a_b]] where the raw key "a_b" and the normalized key "A b" are bound to
\* different slugs: the raw key has won
C14_Witness ==
  /\ cv_pc = "returned"
  /\ text = << <<Link(<<"a","_","b">>)>> >>
  /\ {<<"a","_","b">>, <<"A"," ","b">>} \subseteq DOMAIN page_slugs
  /\ page_slugs[<<"a","_","b">>] # page_slugs[<<"A"," ","b">>]
  /\ LinkPiece.href = page_slugs[<<"a","_","b">>] \o DotHtml

(***************************************************************************)
(* Table runs that are never closed.                                       *)
(***************************************************************************)
\* the line the loop is at closes a table run
AtCloseLine ==
  /\ line_no <= Len(lines)
  /\ StripToks(lines[line_no]) # <<>>
  /\ StripToks(lines[line_no])[1].t = "tclose"

\* the blocks from position n on are closing tags of lists
OnlyClosesFrom(blocks, n) == \A k \in n..Len(blocks) : blocks[k].b = "close"

\* a step of the loop in table mode on a line that is no closing line: table
\* mode stays, nothing is emitted, nothing is recorded
C15_OpenTableStep ==
  (cv_pc = "lines" /\ in_table /\ line_no <= Len(lines) /\ ~AtCloseLine) =>
    /\ cv_pc' = "lines" /\ in_table'
    /\ html_lines' = html_lines
    /\ categories' = categories /\ cat_set' = cat_set
    /\ table_lines' = Append(table_lines, lines[line_no])

\* the step that enters table mode emits and records nothing
C15_OpeningStep ==
  (cv_pc = "lines" /\ ~in_table /\ in_table') =>
    /\ html_lines' = html_lines
    /\ categories' = categories /\ cat_set' = cat_set

\* the return in table mode: the blocks emitted before the run, then only the
\* closing tags of the lists that were open, and the categories recorded
\* before the run
C15_ReturnInTableMode ==
  (cv_pc = "lines" /\ in_table /\ cv_pc' = "returned") =>
    /\ in_table'
    /\ Len(result'.html) = Len(html_lines) + Len(list_stack)
    /\ SubSeq(result'.html, 1, Len(html_lines)) = html_lines
    /\ OnlyClosesFrom(result'.html, Len(html_lines) + 1)
    /\ result'.categories = categories

\* C15: a table run that no closing line follows does not stop the
\* conversion: nothing raises, every line from the opening line on is only
\* accumulated (table mode stays to the end of the input, no block is
\* emitted, no category recorded), and convert returns the blocks emitted
\* before the opening line, followed only by the closing tags of the lists
\* open at that line
C15_UnclosedTableDropped ==
  /\ [][C15_OpenTableStep /\ C15_OpeningStep /\ C15_ReturnInTableMode]_vars
  /\ [](cv_pc # "raised")
  /\ [](cv_pc = "lines" => line_no <= Len(lines) + 1)

\* "* a", "{|", "[[Category:Foo]]" has been converted: the list item and the
\* closing tag of its list, no category
C15_Witness ==
  /\ cv_pc = "returned" /\ in_table
  /\ text = << <<T_star, T_sp, Txt(<<"a">>)>>, <<T_topen>>, <<Link(<<"C","a","t","e","g","o","r","y",":","F","o","o">>)>> >>
  /\ Len(result.html) = 3 /\ result.html[2].b = "li" /\ result.html[3].b = "close"
  /\ result.categories = <<>>

\* the line at line_no starts with the table-open marker / holds the opening tag
\* of a container / holds its closing tag
AtTableOpen ==
  LStripToks(lines[line_no]) # <<>> /\ LStripToks(lines[line_no])[1].t = "topen"
AtContainerOpen == \E k \in DOMAIN lines[line_no] : lines[line_no][k].t = "divc"
AtContainerClose == \E k \in DOMAIN lines[line_no] : lines[line_no][k].t = "divx"

\* the step of the loop on line line_no
LineStep == cv_pc = "lines" /\ line_no <= Len(lines) /\ line_no' = line_no + 1

\* in container mode a table-open marker is one more line of the container
C20_TableOpenInContainer ==
  (LineStep /\ in_collapse /\ AtTableOpen /\ ~AtContainerClose) =>
    /\ in_collapse' /\ ~in_table'
    /\ collapse_lines' = Append(collapse_lines, lines[line_no])
    /\ table_lines' = table_lines /\ html_lines' = html_lines

\* in table mode a container-open marker or a further table-open marker is one
\* more line of the table
C20_OpenMarkerInTable ==
  (LineStep /\ in_table /\ (AtContainerOpen \/ AtTableOpen)) =>
    /\ in_table' /\ ~in_collapse'
    /\ table_lines' = Append(table_lines, lines[line_no])
    /\ collapse_lines' = collapse_lines /\ html_lines' = html_lines

\* a run starts only outside both modes
C20_RunStartsOutside ==
  /\ (~in_table /\ in_table') => (~in_collapse /\ ~in_collapse' /\ AtTableOpen)
  /\ (~in_collapse /\ in_collapse') => (~in_table /\ ~in_table' /\ AtContainerOpen)

\* C20: at every point of the line pass the parser is in at most one of table
\* mode and container mode; a table-open marker met in container mode, and a
\* container-open marker or a further table-open marker met in table mode, are
\* added to the lines of the current run and start no second run.
C20_AtMostOneMode ==
  /\ [](~(in_table /\ in_collapse))
  /\ [][C20_TableOpenInContainer /\ C20_OpenMarkerInTable /\ C20_RunStartsOutside]_vars

\* a table run that has taken a container-open line and a second "{|" as its lines
C20_Witness ==
  /\ cv_pc = "lines" /\ line_no = 4
  /\ in_table /\ ~in_collapse
  /\ table_lines = << <<T_topen>>, <<T_divc>>, <<T_topen>> >>
  /\ collapse_lines = <<>> /\ html_lines = <<>>

\* a container run that has taken "{|" as one of its lines
C20_ContainerHoldsTableOpen ==
  /\ cv_pc = "lines" /\ in_collapse /\ ~in_table
  /\ collapse_lines = << <<T_divc>>, <<T_topen>> >>
  /\ table_lines = <<>>

(***************************************************************************)
(* Claims about mw_trim_revisions.                                         *)
(***************************************************************************)
\* the pages the loop has been through
TrimmedPages == 1..pages_processed

\* the revisions of a page at the positions S, in document order
RECURSIVE AtPositions(_, _, _)
AtPositions(revisions, S, k) ==
  IF k > Len(revisions) THEN <<>>
  ELSE (IF k \in S THEN <<revisions[k]>> ELSE <<>>) \o AtPositions(revisions, S, k + 1)

\* S holds the m most recent positions of the page under the ordering of the mode
MostRecent(S, revisions, m, sort_by) ==
  /\ Cardinality(S) = m
  /\ IF sort_by \in {"timestamp", "id"}
       THEN \A j \in S : \A k \in (DOMAIN revisions) \ S :
              ~key_less(sort_by, revisions[j], revisions[k])
       ELSE S = (Len(revisions) - m + 1)..Len(revisions)

\* C16 (as stated): every trimmed page holds exactly min(keep, n) revisions, the
\* keep most recent ones under the ordering of the mode, in their original order,
\* whichever implementation ran.
C16_ExactlyKeepMostRecent ==
  \A i \in TrimmedPages :
    \E S \in SUBSET (DOMAIN dump_in[i]) :
      /\ MostRecent(S, dump_in[i], Min(args_keep, Len(dump_in[i])), argv.sort_by)
      /\ root[i] = AtPositions(dump_in[i], S, 1)

\* two revisions of the page carry the same id, or both none
SharesAnId(revisions) ==
  \E j, k \in DOMAIN revisions : j # k /\ rid_of(revisions[j]) = rid_of(revisions[k])

\* C16 (what the code does): a trimmed page holds, in their original order, the
\* revisions that carry the id of one of the min(keep, n) most recent ones; that is
\* exactly those min(keep, n) revisions in document order mode and whenever no
\* two revisions of the page share an id, and at least that many otherwise.
C16_KeptByIdentifier ==
  \A i \in TrimmedPages :
    \E S \in SUBSET (DOMAIN dump_in[i]) :
      /\ MostRecent(S, dump_in[i], Min(args_keep, Len(dump_in[i])), argv.sort_by)
      /\ IF argv.sort_by \in {"timestamp", "id"} /\ Len(dump_in[i]) > args_keep
           THEN /\ root[i] = AtPositions(dump_in[i],
                                         {k \in DOMAIN dump_in[i] :
                                            \E j \in S : rid_of(dump_in[i][k]) = rid_of(dump_in[i][j])},
                                         1)
                /\ Len(root[i]) >= Cardinality(S)
                /\ ~SharesAnId(dump_in[i]) => Len(root[i]) = Cardinality(S)
           ELSE root[i] = AtPositions(dump_in[i], S, 1)

\* a page trimmed under --sort-by with --keep 1 that still holds two revisions or more
C16_Divergence ==
  /\ trim_pc = "exited" /\ exit_code = 0
  /\ argv.sort_by \in {"timestamp", "id"} /\ args_keep = 1
  /\ \E i \in TrimmedPages : Len(root[i]) > 1

\* the command line is refused: --keep is no integer or is less than 1
ArgumentError == ~IsDigits(argv.keep) \/ ParseInt(argv.keep) < 1

\* the run meets an exception: the input does not open, an id is no numeral,
\* or the streaming writer refuses an element
RuntimeError ==
  \/ ~input_readable
  \/ \E i \in DOMAIN dump_in : trim_page_raises(dump_in[i], args_keep, argv.sort_by)
  \/ have_lxml /\ ~argv.force_stdlib /\ lxml_refuses /\ (has_siteinfo \/ dump_in # <<>>)

\* C17 (as stated): the tool ends with exit code 0 on success and 1 on every
\* argument error and every runtime error; no other exit code is produced.
C17_ExitZeroOrOne ==
  trim_pc = "exited" =>
    /\ exit_code \in {0, 1}
    /\ exit_code = 1 <=> (ArgumentError \/ RuntimeError)

\* C17 (what the code does): the tool ends with 0 on success and with 1 on a
\* runtime error, but with 2 on an argument error, raised by argparse before
\* main's handlers are entered.
C17_ExitStatusOfMain ==
  trim_pc = "exited" =>
    /\ exit_code \in {0, 1, 2}
    /\ exit_code = 2 <=> ArgumentError
    /\ exit_code = 1 <=> (~ArgumentError /\ RuntimeError)
    /\ exit_code = 0 => pages_processed = Len(dump_in)

\* --keep 0 ends the process with status 2
C17_Divergence ==
  trim_pc = "exited" /\ argv.keep = <<"0">> /\ exit_code = 2

(***************************************************************************)
(* The root element of the trimmed dump.                                   *)
(***************************************************************************)
\* the events that hand a <siteinfo> or a page to the output
Handed == {i \in DOMAIN out : out[i].e \in {"write", "refused"}}
RootEvents(e) == {i \in DOMAIN out : out[i] = e}

\* at the event i the root element has been opened and not closed
RootIsOpenAt(i) ==
  /\ \E j \in RootEvents(OpenRoot) : j < i
  /\ \A j \in RootEvents(CloseRoot) : i < j

TrimExited == trim_pc = "exited"

\* C28 as stated: in the streaming mode the root element is opened before the
\* first siteinfo or page element is written and closed only after the last
\* one: every element is written while the root element is open, and a run
\* that succeeds has closed it
C28_ElementsInsideRoot ==
  use_streaming =>
    /\ \A i \in Handed : RootIsOpenAt(i)
    /\ TrimExited /\ exit_code = 0 => RootEvents(CloseRoot) # {}

\* C28 as the code has it: the streaming mode opens and closes the root
\* element at the first event of the input; every siteinfo and page element is
\* handed to the writer after the root element is closed, and is either
\* refused, which ends the run with status 1, or written behind the closed
\* root element. The full-tree mode writes every element inside the root.
C28_RootClosedBeforeElements ==
  /\ use_streaming =>
       /\ trim_pc \in {"siteinfo", "pages"} => SubSeq(out, 1, 2) = root_element
       /\ Cardinality(RootEvents(OpenRoot)) <= 1 /\ Cardinality(RootEvents(CloseRoot)) <= 1
       /\ \A i \in Handed :
            /\ SubSeq(out, 1, 2) = root_element /\ i > 2
            /\ out[i].e = "refused" <=> lxml_refuses
            /\ out[i].e = "refused" => i = Len(out) /\ TrimExited /\ exit_code = 1
       /\ TrimExited /\ exit_code = 0 /\ lxml_refuses => ~has_siteinfo /\ dump_in = <<>>
  /\ ~use_streaming =>
       /\ \A i \in Handed : RootIsOpenAt(i) /\ out[i].e = "write"
       /\ TrimExited /\ exit_code = 0 => out = tree_write(has_siteinfo, root)

\* a streaming run on a dump of a siteinfo and a page has ended: both elements
\* were handed to the writer after the root element had been closed
C28_Divergence ==
  /\ TrimExited /\ use_streaming /\ has_siteinfo /\ Len(dump_in) = 1
  /\ Len(out) >= 3
  /\ SubSeq(out, 1, 2) = <<OpenRoot, CloseRoot>>
  /\ out[3].elem = "siteinfo"
  /\ lxml_refuses => out[3].e = "refused" /\ Len(out) = 3 /\ exit_code = 1
  /\ ~lxml_refuses => Len(out) = 4 /\ out[4] = WriteElem("page", 1, FALSE) /\ exit_code = 0

(***************************************************************************)
(* Claims about the normal lines of convert: headings and list items.      *)
(***************************************************************************)
\* the step of the loop that converts line line_no outside table and container mode
NormalStep ==
  /\ cv_pc = "lines" /\ line_no <= Len(lines) /\ line_no' = line_no + 1
  /\ ~in_table /\ ~in_collapse /\ ~in_table' /\ ~in_collapse'

\* the step emits a heading: the last block of the output is new and is a heading
HeadingStep ==
  /\ NormalStep
  /\ Len(html_lines') > Len(html_lines)
  /\ html_lines'[Len(html_lines')].b = "h"

\* the runs of "=" a line opens with and, before its trailing white space, ends with
OpeningRun(line) == LeadingRun(line, {"eq"})
ClosingRun(line) == TrailingRun(RStripToks(line), {"eq"})

\* C18 (as stated): a line becomes a heading only when its opening and closing
\* runs of "=" have the same length; the level is that length clamped to 6, so
\* every heading level is in 1..6.
C18_HeadingOnlyWhenBalanced ==
  [][HeadingStep =>
       /\ OpeningRun(lines[line_no]) = ClosingRun(lines[line_no])
       /\ html_lines'[Len(html_lines')].n = Min(OpeningRun(lines[line_no]), 6)
       /\ html_lines'[Len(html_lines')].n \in 1..6]_vars

\* C18 (what the code does): a line becomes a heading when it opens with a run
\* of "=", ends with a run of "=" and holds something else in between, whatever
\* the lengths of the two runs; the level is the length of the opening run
\* clamped to 6, so every heading level is in 1..6. A line of balanced runs
\* around some text is always a heading.
C18_LevelFromOpeningRun ==
  /\ [][HeadingStep =>
          /\ OpeningRun(lines[line_no]) >= 1 /\ ClosingRun(lines[line_no]) >= 1
          /\ html_lines'[Len(html_lines')].n = Min(OpeningRun(lines[line_no]), 6)
          /\ html_lines'[Len(html_lines')].n \in 1..6]_vars
  /\ [][(NormalStep /\ OpeningRun(lines[line_no]) >= 1 /\ ClosingRun(lines[line_no]) >= 1
           /\ OpeningRun(lines[line_no]) + ClosingRun(lines[line_no])
                < Len(RStripToks(lines[line_no])))
          => HeadingStep]_vars

\* "==a=" has just been converted into a heading of level 2
C18_Divergence ==
  /\ cv_pc = "lines" /\ line_no > 1
  /\ lines[line_no - 1] = Equals(2) \o <<Txt(<<"a">>)>> \o Equals(1)
  /\ html_lines # <<>>
  /\ html_lines[Len(html_lines)].b = "h" /\ html_lines[Len(html_lines)].n = 2

\* the step of the loop that converts the list item at line_no
ListStep ==
  /\ NormalStep
  /\ ListMatches(lines[line_no])
  /\ ~HeadingMatches(lines[line_no])

\* the length L of the marker prefix of a list item and the kind k of its last marker
MarkerLength(line) == LeadingRun(line, {"star", "hash"})
MarkerKind(line) == line[MarkerLength(line)].v[1]

\* how many of the blocks from position n on are of sort b
RECURSIVE CountFrom(_, _, _)
CountFrom(blocks, n, b) ==
  IF n > Len(blocks) THEN 0
  ELSE (IF blocks[n].b = b THEN 1 ELSE 0) + CountFrom(blocks, n + 1, b)

\* the list levels the step opens and closes
Opened == CountFrom(html_lines', Len(html_lines) + 1, "open")
Closed == CountFrom(html_lines', Len(html_lines) + 1, "close")

\* after the list item the stack has depth L and its innermost context has kind k
DepthAndKind ==
  /\ Len(list_stack') = MarkerLength(lines[line_no])
  /\ list_stack'[Len(list_stack')] = MarkerKind(lines[line_no])

\* C19 (as stated): after a list item of marker length L and kind k the stack
\* has depth L and its innermost context has kind k; a depth change opens or
\* closes exactly |L - previous depth| levels, and a kind change at the same
\* depth closes that one level and reopens it with the new kind.
C19_ExactlyDepthDifference ==
  [][ListStep =>
       /\ DepthAndKind
       /\ \E L \in {MarkerLength(lines[line_no])} : \E d \in {Len(list_stack)} :
            IF L > d THEN Opened = L - d /\ Closed = 0
            ELSE IF L < d THEN Closed = d - L /\ Opened = 0
            ELSE IF list_stack[d] # MarkerKind(lines[line_no]) THEN Closed = 1 /\ Opened = 1
            ELSE Closed = 0 /\ Opened = 0]_vars

\* the context at depth L, once the deeper ones are closed, is of another kind than k
Rekinded(L, d) == L <= d /\ list_stack[L] # MarkerKind(lines[line_no])

\* C19 (amended): after a list item of marker length L and kind k the stack has
\* depth L and its innermost context has kind k. A deeper item opens exactly
\* L - d levels on the previous depth d and closes none; a shallower item closes
\* exactly d - L levels; and whenever the context then left at depth L (after
\* a decrease of depth as well as at the same depth) is of another kind than k,
\* that one level is closed too and reopened with kind k. The contexts below
\* are left as they were.
C19_DepthKindAndLevels ==
  [][ListStep =>
       /\ DepthAndKind
       /\ \E L \in {MarkerLength(lines[line_no])} : \E d \in {Len(list_stack)} :
            /\ Opened = (IF L > d THEN L - d ELSE 0) + (IF Rekinded(L, d) THEN 1 ELSE 0)
            /\ Closed = (IF L < d THEN d - L ELSE 0) + (IF Rekinded(L, d) THEN 1 ELSE 0)
            /\ \A k \in 1..(Min(L, d) - 1) : list_stack'[k] = list_stack[k]
            /\ html_lines'[Len(html_lines')].b = "li"
            /\ Len(html_lines') = Len(html_lines) + Opened + Closed + 1]_vars

\* "** b" then "# d": the item "# d" has closed two levels and opened one
C19_Witness ==
  /\ cv_pc = "lines" /\ line_no = 3
  /\ lines[1] = <<T_star, T_star, T_sp, Txt(<<"b">>)>>
  /\ lines[2] = <<T_hash, T_sp, Txt(<<"d">>)>>
  /\ list_stack = <<"#">>
  /\ Len(html_lines) = 7
  /\ html_lines[4].b = "close" /\ html_lines[5].b = "close"
  /\ html_lines[6].b = "open" /\ html_lines[6].k = "ol" /\ html_lines[7].b = "li"

(***************************************************************************)
(* Claims about container runs and about the blocks emitted around lists.  *)
(***************************************************************************)
\* the step emits exactly one block, a container, and leaves container mode
EmitsContainer ==
  /\ ~in_collapse'
  /\ Len(html_lines') = Len(html_lines) + 1
  /\ SubSeq(html_lines', 1, Len(html_lines)) = html_lines
  /\ html_lines'[Len(html_lines')].b = "aside"

\* the step on a line that starts a container run or is met inside one
RunStep ==
  /\ LineStep /\ ~in_table
  /\ in_collapse \/ (AtContainerOpen /\ ~AtTableOpen)

\* C21 (as stated): a container run that starts at line i ends at the first line
\* j >= i, the opening line included, that holds the closing marker in any
\* case; exactly one container block is emitted for the lines i..j and the
\* lines after j are parsed in normal mode again.
C21_EndsAtFirstClosingLine ==
  /\ [][(RunStep /\ AtContainerClose) => EmitsContainer]_vars
  /\ [][(RunStep /\ ~AtContainerClose) => (in_collapse' /\ html_lines' = html_lines)]_vars

\* C21 (what the code does): the line that starts a container run is never
\* looked at for the closing marker; the run ends at the first line after the
\* opening line that holds the closing marker in any case, one container block
\* is emitted then for the lines of the run, and the lines after it are parsed in
\* normal mode again.
C21_EndsAtFirstLaterClosingLine ==
  /\ [][(RunStep /\ ~in_collapse) =>
          /\ in_collapse' /\ html_lines' = html_lines
          /\ collapse_lines' = <<lines[line_no]>>]_vars
  /\ [][(RunStep /\ in_collapse /\ AtContainerClose) =>
          /\ EmitsContainer
          /\ collapse_lines' = Append(collapse_lines, lines[line_no])]_vars
  /\ [][(RunStep /\ in_collapse /\ ~AtContainerClose) =>
          /\ in_collapse' /\ html_lines' = html_lines
          /\ collapse_lines' = Append(collapse_lines, lines[line_no])]_vars

\* a container written on one line and the two paragraphs after it: nothing is returned
C21_Divergence ==
  /\ cv_pc = "returned" /\ in_collapse
  /\ text = << <<T_divc, Txt(<<"x">>), T_divx>>, <<Txt(<<"p">>)>>, <<Txt(<<"p">>)>> >>
  /\ collapse_lines = text
  /\ result.html = <<>>

\* how many list contexts are open before the block at position k
DepthBefore(blocks, k) ==
  Cardinality({j \in 1..(k - 1) : blocks[j].b = "open"})
    - Cardinality({j \in 1..(k - 1) : blocks[j].b = "close"})

\* every block of one of the sorts stands where no list context is open
OutsideLists(blocks, sorts) ==
  \A k \in DOMAIN blocks : blocks[k].b \in sorts => DepthBefore(blocks, k) = 0

\* C27 (as stated): no block other than a list item is emitted while a list
\* context is open: when an empty line, a heading, a paragraph, a table or a
\* container is appended to the output, every open list context has been closed.
C27_NoBlockInsideList ==
  /\ OutsideLists(html_lines, {"blank", "h", "p", "table", "md", "aside"})
  /\ Len(list_stack) = DepthBefore(html_lines, Len(html_lines) + 1)

\* C27 (what the code does): empty lines, headings, paragraphs and tables are
\* appended only after every open list context has been closed; a container is
\* appended with the list contexts left open as they are.
C27_ContainerInsideList ==
  /\ [](/\ OutsideLists(html_lines, {"blank", "h", "p", "table", "md"})
        /\ Len(list_stack) = DepthBefore(html_lines, Len(html_lines) + 1))
  /\ [][(LineStep /\ in_collapse /\ ~in_collapse') =>
          (EmitsContainer /\ list_stack' = list_stack)]_vars

\* "* a", the opening tag, "x</div>": the container stands inside the open list
C27_Divergence ==
  /\ cv_pc = "lines" /\ line_no = 4
  /\ list_stack = <<"*">>
  /\ Len(html_lines) = 3
  /\ html_lines[1].b = "open" /\ html_lines[2].b = "li" /\ html_lines[3].b = "aside"

(***************************************************************************)
(* Claims about the recording of categories.                               *)
(***************************************************************************)
\* the categories named by the category links of a line
CategoryNames(line) ==
  {CategoryName(line[k]) : k \in {j \in DOMAIN line : IsCategoryLink(line[j])}}

\* the lines of a table run that hold cells, and those that hold a caption
IsCellLine(tl) == StripToks(tl) # <<>> /\ StartsCell(StripToks(tl))
IsCaptionLine(tl) == StripToks(tl) # <<>> /\ StripToks(tl)[1].t = "tcap"

\* the lines of the table run between its opening line and the closing line at line_no
TableBody == SubSeq(table_lines, 2, Len(table_lines))

\* the categories named in the cells / in the captions of the table run
NamesIn(tls, Sort(_)) ==
  UNION {CategoryNames(tls[k]) : k \in {j \in DOMAIN tls : Sort(tls[j])}}

\* the list holds no entry twice
NoRepeats(s) == \A j, k \in DOMAIN s : j # k => s[j] # s[k]

\* the steps that close a table run and a container run
TableCloseStep == LineStep /\ in_table /\ AtCloseLine
ContainerCloseStep == LineStep /\ in_collapse /\ ~in_table /\ AtContainerClose

\* C22 (as stated): every category named by a category link of the text, on a
\* normal line, in a table cell, in a table caption or on a line inside a
\* container run, is recorded in the categories of the page exactly once.
C22_EveryCategoryRecorded ==
  /\ [](NoRepeats(categories))
  /\ [][NormalStep => CategoryNames(lines[line_no]) \subseteq Range(categories')]_vars
  /\ [][TableCloseStep =>
          /\ NamesIn(TableBody, IsCellLine) \subseteq Range(categories')
          /\ NamesIn(TableBody, IsCaptionLine) \subseteq Range(categories')]_vars
  /\ [][ContainerCloseStep =>
          \A k \in DOMAIN collapse_lines' :
            CategoryNames(collapse_lines'[k]) \subseteq Range(categories')]_vars

\* the categories named in a cell line by the links that are whole in a cell
\* part once its attribute prefix, everything up to its first "|", is cut off
CellPartNames(tl) ==
  LET core == StripToks(tl)
      parts == cell_parts(CellLine(core), CellIsHeader(core))
  IN  UNION {CategoryNames(IF StripToks(parts[k]) # <<>> /\ AttrMatches(StripToks(parts[k]))
                             THEN AttrRest(StripToks(parts[k])) ELSE parts[k]) :
               k \in DOMAIN parts}

\* C22 (what the code does): the category-strip pass records, exactly once, the
\* categories named on normal lines and in the cell parts of a closed table; a
\* category link in a table caption, on a line of a container run, or cut by
\* the attribute split of a cell is rendered or dropped without being recorded.
C22_RecordedFromLinesAndCells ==
  /\ [](NoRepeats(categories) /\ cat_set = Range(categories))
  /\ [][NormalStep =>
          Range(categories') = Range(categories) \cup CategoryNames(lines[line_no])]_vars
  /\ [][TableCloseStep =>
          Range(categories') =
            Range(categories)
              \cup UNION {CellPartNames(TableBody[k]) :
                            k \in {j \in DOMAIN TableBody : IsCellLine(TableBody[j])}}]_vars
  /\ [][(LineStep /\ ~TableCloseStep /\ (in_table \/ in_collapse \/ in_table' \/ in_collapse'))
          => categories' = categories]_vars

\* the container holding "[[Category:Box]]" has been converted: no category
C22_Divergence ==
  /\ cv_pc = "returned"
  /\ text = << <<T_divc>>, <<Link(<<"C","a","t","e","g","o","r","y",":","B","o","x">>)>>, <<T_divx>> >>
  /\ Len(result.html) = 1 /\ result.html[1].b = "aside"
  /\ result.categories = <<>>

(***************************************************************************)
(* Claims about the rows of a generic table.                               *)
(***************************************************************************)
\* the rows of the table run that the line at line_no closes
ParsedRows == parse_table(Append(table_lines, lines[line_no]), categories, cat_set).rows

\* the blocks the step appends
NewBlocks == SubSeq(html_lines', Len(html_lines) + 1, Len(html_lines'))

\* how many of the blocks are Markdown table lines of role k
CountRole(blocks, k) ==
  Cardinality({j \in DOMAIN blocks : blocks[j].b = "md" /\ blocks[j].k = k})

\* a cell of the row was marked as a header cell
Marked(row) == \E c \in DOMAIN row : row[c].is_header

\* the step closes a table run of generic layout that has at least one row
GenericTableStep ==
  TableCloseStep /\ ParsedRows # <<>> /\ ~key_value_style(ParsedRows)

\* in HTML the table block holds every row, each cell with its own mark
HtmlRowsAsMarked ==
  /\ Len(NewBlocks) = 1 /\ NewBlocks[1].b = "table" /\ ~NewBlocks[1].kv
  /\ Len(NewBlocks[1].rows) = Len(ParsedRows)
  /\ \A r \in DOMAIN ParsedRows :
       /\ Len(NewBlocks[1].rows[r]) = Len(ParsedRows[r])
       /\ \A c \in DOMAIN ParsedRows[r] :
            NewBlocks[1].rows[r][c].is_header = ParsedRows[r][c].is_header

\* C23 (as stated): in a table of generic layout the first row is rendered as
\* the header row only if one of its cells was marked as a header cell;
\* otherwise every row, the first included, is rendered as a data row, in
\* HTML and in Markdown.
C23_HeaderRowOnlyIfMarked ==
  [][GenericTableStep =>
       IF mode = "markdown"
         THEN IF Marked(ParsedRows[1])
                THEN /\ CountRole(NewBlocks, "header") = 1
                     /\ CountRole(NewBlocks, "row") = Len(ParsedRows) - 1
              ELSE /\ CountRole(NewBlocks, "header") = 0
                   /\ CountRole(NewBlocks, "row") = Len(ParsedRows)
       ELSE HtmlRowsAsMarked]_vars

\* C23 (what the code does): in HTML every cell of a generic table is rendered
\* by its own mark, so the first row is a header row only if its cells were
\* marked; in Markdown the first row is always rendered as the header row,
\* followed by the separator line and one data row per remaining row, whether
\* or not any of its cells was marked.
C23_MarkdownFirstRowIsHeader ==
  [][GenericTableStep =>
       IF mode = "markdown"
         THEN /\ Len(NewBlocks) = Len(ParsedRows) + 1
              /\ NewBlocks[1].b = "md" /\ NewBlocks[1].k = "header"
              /\ Len(NewBlocks[1].rows[1]) = Len(ParsedRows[1])
              /\ \A c \in DOMAIN ParsedRows[1] :
                   NewBlocks[1].rows[1][c].is_header = ParsedRows[1][c].is_header
              /\ NewBlocks[2].b = "md" /\ NewBlocks[2].k = "sep"
              /\ CountRole(NewBlocks, "header") = 1
              /\ CountRole(NewBlocks, "row") = Len(ParsedRows) - 1
       ELSE HtmlRowsAsMarked]_vars

\* a Markdown table of one row of three data cells: the row is the header row
C23_Divergence ==
  /\ cv_pc = "returned" /\ mode = "markdown"
  /\ Len(text) = 3
  /\ text[2] = <<T_bar, T_sp, Txt(<<"a">>), T_sp, T_dbar, T_sp, Txt(<<"b">>), T_sp, T_dbar, T_sp, Txt(<<"c">>)>>
  /\ Len(result.html) = 2
  /\ result.html[1].k = "header" /\ ~Marked(result.html[1].rows[1])
  /\ result.html[2].k = "sep"

(***************************************************************************)
(* Claims about template removal.                                          *)
(***************************************************************************)
\* how deep the braces of a stream of lexemes nest
RECURSIVE BraceDepth(_, _, _)
BraceDepth(stream, open, deepest) ==
  IF stream = <<>> THEN deepest
  ELSE IF Head(stream).t = "lbr"
    THEN BraceDepth(Tail(stream), open + 1, Max(deepest, open + 1))
  ELSE IF Head(stream).t = "rbr" THEN BraceDepth(Tail(stream), open - 1, deepest)
  ELSE BraceDepth(Tail(stream), open, deepest)

\* n passes of the removal, one after the other
RECURSIVE Passes(_, _)
Passes(stream, n) == IF n = 0 THEN stream ELSE Passes(template_pass(stream), n - 1)

\* the lexemes of the lines of the loop, a newline between the lines
LinesStream == JoinLines(lines)

\* the text the call started from, as one stream
TextDepth == BraceDepth(TextStream(text), 0, 0)

\* C24: template removal runs before the text is split into lines, makes at
\* most 10 passes and stops at the first pass that changes nothing; a pass
\* deletes every template span that holds no brace, so a balanced template
\* nested d <= 10 deep is removed completely, and of one nested d > 10 deep
\* exactly the outermost d - 10 levels remain as literal text. A template
\* that spans a line break takes the line break with it.
C24_TenPassesOfRemoval ==
  cv_pc = "lines" =>
    /\ LinesStream = Passes(TextStream(text), Min(TextDepth, 10))
    /\ BraceDepth(LinesStream, 0, 0) = Max(TextDepth - 10, 0)
    /\ TextDepth <= 10 => template_pass(LinesStream) = LinesStream
    /\ TextDepth <= 10 => \A k \in DOMAIN LinesStream : LinesStream[k].t \notin {"lbr", "rbr"}
    /\ (TextDepth > 10 /\ Len(text) = 1 /\ text[1][Len(text[1])].t = "txt") =>
         lines = << <<Txt(<<"a">>)>> \o Nested(TextDepth - 10) \o <<Txt(<<"b">>)>> >>
    /\ (Len(text) = 2 /\ text[2][1].t = "rbr") => Len(lines) = 1

\* a template nested 12 deep has been through the passes: two levels remain
C24_Witness ==
  /\ cv_pc = "lines" /\ line_no = 1
  /\ text = << <<Txt(<<"a">>)>> \o Nested(12) \o <<Txt(<<"b">>)>> >>
  /\ lines = << <<Txt(<<"a">>), T_lbr, Txt(<<"t">>), T_lbr, Txt(<<"t">>), T_rbr, T_rbr, Txt(<<"b">>)>> >>

(***************************************************************************)
(* The index document and the page documents.                              *)
(***************************************************************************)
BuildDone == pc = "done"
\* the page k was registered under the slug "index"
HasIndexSlug(k) == page_objects[k].slug = <<"i","n","d","e","x">>
\* the page k is the first of its dump whose title has the base slug "index"
FirstTitledIndex(k) ==
  /\ slugify(page_objects[k].title, {}) = <<"i","n","d","e","x">>
  /\ \A j \in Pages : j < k => slugify(page_objects[j].title, {}) # <<"i","n","d","e","x">>

\* C25 as stated: no page is assigned the slug "index", the file of the index
\* differs from the file of every page, and after the build every page still
\* has its own document
C25_IndexNeverAPageFile ==
  /\ \A k \in Pages : ~HasIndexSlug(k) /\ page_file(page_objects[k], mode) # index_file(mode)
  /\ BuildDone => \A k \in Pages : written[page_file(page_objects[k], mode)].kind = "page"

\* C25 as the code has it: the first page whose title has the base slug
\* "index" is assigned that slug and the file name of the index; the index,
\* written last, replaces the document of that page and of no other page
C25_IndexReplacesPageIndex ==
  /\ \A k \in Pages :
       /\ HasIndexSlug(k) <=> FirstTitledIndex(k)
       /\ page_file(page_objects[k], mode) = index_file(mode) <=> HasIndexSlug(k)
  /\ BuildDone =>
       /\ written[index_file(mode)] = File("index", 0, index_document(page_objects, mode))
       /\ \A k \in Pages :
            written[page_file(page_objects[k], mode)].kind
              = IF HasIndexSlug(k) THEN "index" ELSE "page"

\* the build of a dump with a page titled "Index" and another page is done:
\* the document of "Index" is gone, the index is in its place and links to it
C25_Divergence ==
  /\ BuildDone
  /\ \E k \in Pages : \E j \in Pages :
       /\ page_objects[k].title = <<"I","n","d","e","x">> /\ HasIndexSlug(k)
       /\ page_objects[j].title = <<"A">>
       /\ written[page_file(page_objects[k], mode)].kind = "index"
       /\ written[page_file(page_objects[j], mode)].kind = "page"
       /\ \E n \in DOMAIN written[index_file(mode)].body :
            /\ written[index_file(mode)].body[n].b = "li"
            /\ written[index_file(mode)].body[n].body[1].href = index_file(mode)

(***************************************************************************)
(* The links to the category listings.                                     *)
(***************************************************************************)
\* the document of the page k
PageDoc(k) == written[page_file(page_objects[k], mode)]
IndexDoc == written[index_file(mode)]

\* the links of the footer of the page k to the category c
FooterLinksTo(k, c) ==
  {PageDoc(k).footer[n] : n \in {m \in DOMAIN PageDoc(k).footer : PageDoc(k).footer[m] = footer_link(c)}}

\* the links of the index to the category c
IndexLinksTo(c) ==
  {IndexDoc.body[n].body[1] :
     n \in {m \in DOMAIN IndexDoc.body :
              IndexDoc.body[m] = Block("li", "", 0, <<index_category_link(c, mode)>>)}}

\* the anchors in the blocks of a document
AnchorsIn(doc) ==
  UNION {{doc.body[n].body[m] : m \in {i \in DOMAIN doc.body[n].body : doc.body[n].body[i].t = "a"}} :
           n \in DOMAIN doc.body}

\* the inline links of the document of the page k to the category c: what
\* link_sub made of the category links of its text that name c, as the
\* document has them
InlineLinksTo(k, c) ==
  LET stream == TextStream(page_objects[k].text) IN
    {anchor_sub(link, mode) :
       link \in {link_sub(stream[n].v, page_slugs) :
                   n \in {m \in DOMAIN stream :
                            IsCategoryLink(stream[m]) /\ CategoryName(stream[m]) = c}}
                   \cap AnchorsIn(PageDoc(k))}

\* every link to the category c in the documents written so far
LinksTo(c) ==
  UNION {FooterLinksTo(k, c) \cup InlineLinksTo(k, c) : k \in {j \in Pages : PageDone(j)}}
    \cup (IF BuildDone THEN IndexLinksTo(c) ELSE {})

\* C26 as stated: every link to a category, in a footer, in the index and
\* inline, targets the file under which the listing of the category is written
C26_LinksTargetListingFile ==
  \A c \in Listed : \A link \in LinksTo(c) :
    /\ link.href = ListingFile(c)
    /\ BuildDone => ListingFile(c) \in DOMAIN written /\ written[ListingFile(c)].kind = "category"

\* C26 as the code has it: every link to a category targets the unsuffixed
\* category slug with the extension of the output format; this is the file of
\* the listing only when no page has that slug
C26_LinksTargetCategorySlug ==
  \A c \in Listed :
    /\ \A link \in LinksTo(c) :
         /\ link.href = category_slug(c) \o Ext(mode)
         /\ link.href = ListingFile(c) <=> category_slug(c) \notin used_slugs
    /\ BuildDone => IndexLinksTo(c) # {}
    /\ \A k \in Pages :
         PageDone(k) /\ mode = "html" /\ c \in Range(page_objects[k].categories)
           => FooterLinksTo(k, c) # {}

\* the pages "Category Foo" and "A", the latter in the category "Foo" with an
\* inline link to it: the listing is written as category-foo-2, and the
\* footer, the inline link and the index all lead to the page "Category Foo"
C26_Divergence ==
  /\ BuildDone /\ mode = "html" /\ <<"F","o","o">> \in Listed
  /\ ListingFile(<<"F","o","o">>) = <<"c","a","t","e","g","o","r","y","-","f","o","o","-","2",".","h","t","m","l">>
  /\ written[ListingFile(<<"F","o","o">>)].kind = "category"
  /\ \E j \in Pages : \E k \in Pages :
       /\ page_objects[j].title = <<"C","a","t","e","g","o","r","y"," ","F","o","o">>
       /\ FooterLinksTo(k, <<"F","o","o">>) # {} /\ InlineLinksTo(k, <<"F","o","o">>) # {}
       /\ \A link \in FooterLinksTo(k, <<"F","o","o">>) \cup InlineLinksTo(k, <<"F","o","o">>) \cup IndexLinksTo(<<"F","o","o">>) :
            /\ link.href = page_file(page_objects[j], mode)
            /\ written[link.href] = PageDoc(j) /\ PageDoc(j).kind = "page"

====
